---- MODULE Spec2Model ----
(***************************************************************************)
(* A model of the Liferay URL extractor's crawl engine: the rate-limited   *)
(* transport (core/session.py), the result cache (core/cache.py), the      *)
(* checkpoint helpers (utils/helpers.py), the page record (models/page.py) *)
(* and the recursive traversal (core/extractor.py).                        *)
(*                                                                         *)
(* Scheduling is asyncio's: one thread, cooperative tasks.  Every action   *)
(* below is the code a task runs between two suspension points (an HTTP    *)
(* request in flight, a wait for the semaphore, a sleep, a gather).        *)
(*                                                                         *)
(* Strings the code slices or joins (friendly URLs, paths, URLs) are       *)
(* sequences of tokens: the token "/" is the slash, every other token is   *)
(* a run of characters without slash.                                      *)
(***************************************************************************)
EXTENDS Integers, Sequences, FiniteSets, TLC

VARIABLES
    \* configuration (main.py 53-63), fixed for the life of a behaviour
    remote,               \* the remote API: traversal key -> response body
    max_concurrent,       \* MAX_CONCURRENT_REQUESTS
    cache_ttl,            \* CACHE_TTL, in hours
    resume_extraction,    \* RESUME_EXTRACTION of the current run
    \* durable storage and the wall clock
    state_file,           \* the checkpoint file
    cache_db,             \* the shelve store: cache key -> [time, content]
    cache_handle,         \* CacheManager.cache_db is not None: the store is open
    now,                  \* time.time(), in seconds
    \* LiferayUrlExtractor's fields
    all_pages,
    processed_layouts,
    site_structure,       \* partition name -> the dict object it refers to
    heap,                 \* dict object -> its content (segment -> entry)
    stats,
    \* SessionManager
    request_semaphore,    \* free slots of the asyncio.Semaphore
    \* the event loop
    pc,                   \* where main() / fetch_all_layouts is
    periodic,             \* the _periodic_state_save task
    tasks,                \* task id -> the task's frame
    \* bookkeeping of the model, read by the properties only
    run,                  \* number of the current process run
    restored,             \* did this run restore a checkpoint?
    faults,               \* failing attempts injected so far in this run
    issued,               \* traversal key -> get_or_fetch calls in this run
    log                   \* calls of the component specifications

vars == <<remote, max_concurrent, cache_ttl, resume_extraction, state_file,
          cache_db, cache_handle, now, all_pages, processed_layouts, site_structure, heap,
          stats, request_semaphore, pc, periodic, tasks, run, restored, faults,
          issued, log>>

----------------------------------------------------------------------------
(* Bounds of the model *)

\* layout ids of the remote scenarios are 1..MaxLayoutId
MaxLayoutId == 4
\* max_concurrent ranges over 1..MaxConcurrent
MaxConcurrent == 2
\* failing attempts (HTTP status, connection error, unexpected error) per run
MaxFaults == 3
\* process runs in one behaviour
MaxRuns == 2
\* callers in the transport specification
NumCallers == 3
\* get_or_fetch calls in the cache specification
MaxCalls == 3
\* the configured time-to-live ranges over 0..MaxTtl hours
MaxTtl == 1
\* the largest max_retries a caller passes in the transport specification
MaxRetries == 3
\* the clock of the cache specification runs over MaxHours hours
MaxHours == 2
\* friendly URLs of the page specification have up to MaxTokens tokens
MaxTokens == 4
\* the exporter is given up to MaxPages records
MaxPages == 2
\* whose URLs have up to MaxUrlLen characters
MaxUrlLen == 2
\* base endpoints and group ids have up to MaxConfigLen characters
MaxConfigLen == 2

(* Program constants *)

\* request_with_retry's default max_retries
DefaultMaxRetries == 3
\* seconds per hour, CacheManager.__init__
SecondsPerHour == 3600

----------------------------------------------------------------------------
(* Strings as token sequences *)

Slash == "/"

\* str.lstrip('/')
RECURSIVE lstrip(_)
lstrip(s) == IF s # <<>> /\ Head(s) = Slash THEN lstrip(Tail(s)) ELSE s

\* str.startswith('/')
startswith(s) == s # <<>> /\ Head(s) = Slash

\* str.endswith('/')
endswith(s) == s # <<>> /\ s[Len(s)] = Slash

\* s[:-1]
DropLast(s) == SubSeq(s, 1, Len(s) - 1)

\* the configured LIFERAY_URL: scheme and host, no path
BaseUrl == <<"http:", Slash, Slash, "h">>

\* urllib.parse.urljoin(base, path) for a base without path component:
\* an empty reference gives the base, a reference starting with "//" replaces
\* the host, one starting with "/" is the path, anything else is appended to
\* the (empty) base path.
urljoin(base, path) ==
    IF path = <<>> THEN base
    ELSE IF Len(path) >= 2 /\ path[1] = Slash /\ path[2] = Slash
         THEN <<base[1]>> \o path
    ELSE IF path[1] = Slash THEN base \o path
    ELSE base \o <<Slash>> \o path

----------------------------------------------------------------------------
(* models/page.py *)

\* Page.from_json followed by Page.to_dict
from_json(layout, parent_url, is_private, base_url) ==
    LET friendly_url == IF startswith(layout.friendlyURL)
                        THEN Tail(layout.friendlyURL)
                        ELSE layout.friendlyURL
        full_path == IF parent_url # <<>>
                     THEN parent_url \o <<Slash>> \o friendly_url
                     ELSE friendly_url
        joined == urljoin(base_url, full_path)
        complete_url == IF endswith(joined) THEN DropLast(joined) ELSE joined
    IN  [id |-> layout.layoutId,
         path |-> full_path,
         url |-> complete_url,
         title |-> layout.name,
         parent_id |-> layout.parentLayoutId,
         private |-> is_private]

----------------------------------------------------------------------------
(* The remote API (spec section 6): POST .../layout/get-layouts *)

\* traversal key: f"{parent_layout_id}-{is_private}", extractor.py 170
LayoutKey(parent_layout_id, is_private) == <<parent_layout_id, is_private>>

Keys == {LayoutKey(i, p) : i \in 0..MaxLayoutId, p \in BOOLEAN}

\* a layout object of the JSON array the API returns
Layout(id, segment, parent) ==
    [layoutId |-> id, friendlyURL |-> <<Slash, segment>>, name |-> segment,
     parentLayoutId |-> parent]

\* a response body: a JSON array of layouts, or a JSON object (the error
\* document the JSON web service answers with)
Array(items) == [kind |-> "array", items |-> items]
ErrorObject == [kind |-> "object", items |-> <<>>]
EmptyList == Array(<<>>)

\* the remote given by the keys that have children; every other key has none
Remote(children) ==
    [k \in Keys |-> IF k \in DOMAIN children THEN children[k] ELSE EmptyList]

\* spec section 8, end-to-end scenario: two public layouts, one with a child
RemoteEndToEnd ==
    Remote([k \in {LayoutKey(0, FALSE), LayoutKey(1, FALSE)} |->
        IF k = LayoutKey(0, FALSE)
        THEN Array(<<Layout(1, "a", 0), Layout(2, "b", 0)>>)
        ELSE Array(<<Layout(3, "c", 1)>>)])

\* a layout reachable from two parents, and a cycle 1 -> 2 -> 1
RemoteCyclic ==
    Remote([k \in {LayoutKey(0, FALSE), LayoutKey(1, FALSE), LayoutKey(2, FALSE)} |->
        IF k = LayoutKey(0, FALSE)
        THEN Array(<<Layout(1, "a", 0), Layout(2, "b", 0)>>)
        ELSE IF k = LayoutKey(1, FALSE)
        THEN Array(<<Layout(2, "b", 1)>>)
        ELSE Array(<<Layout(1, "a", 2)>>)])

\* layout 3 is listed under layouts 1 and 2, and has a child of its own
RemoteDiamond ==
    Remote([k \in {LayoutKey(0, FALSE), LayoutKey(1, FALSE), LayoutKey(2, FALSE),
                   LayoutKey(3, FALSE)} |->
        IF k = LayoutKey(0, FALSE)
        THEN Array(<<Layout(1, "a", 0), Layout(2, "b", 0)>>)
        ELSE IF k = LayoutKey(3, FALSE)
        THEN Array(<<Layout(4, "d", 3)>>)
        ELSE Array(<<Layout(3, "c", k[1])>>)])

\* private layouts, two siblings with the same friendly URL
RemoteSameSegment ==
    Remote([k \in {LayoutKey(0, TRUE), LayoutKey(1, TRUE)} |->
        IF k = LayoutKey(0, TRUE)
        THEN Array(<<Layout(1, "a", 0), Layout(2, "a", 0)>>)
        ELSE Array(<<Layout(3, "c", 1)>>)])

\* a layout object without the friendlyURL field: layout.get('friendlyURL',
\* '') gives the empty string
LayoutWithoutUrl(id, name, parent) ==
    [layoutId |-> id, friendlyURL |-> <<>>, name |-> name,
     parentLayoutId |-> parent]

\* two children of layout 1 share the segment /b; the earlier has a child
RemoteSameSegmentBelow ==
    Remote([k \in {LayoutKey(0, FALSE), LayoutKey(1, FALSE), LayoutKey(2, FALSE)} |->
        IF k = LayoutKey(0, FALSE)
        THEN Array(<<Layout(1, "a", 0)>>)
        ELSE IF k = LayoutKey(1, FALSE)
        THEN Array(<<Layout(2, "b", 1), Layout(3, "b", 1)>>)
        ELSE Array(<<Layout(4, "d", 2)>>)])

\* two top-level layouts without friendlyURL; the earlier has two children
\* without friendlyURL
RemoteNoFriendlyURL ==
    Remote([k \in {LayoutKey(0, FALSE), LayoutKey(1, FALSE)} |->
        IF k = LayoutKey(0, FALSE)
        THEN Array(<<LayoutWithoutUrl(1, "a", 0), LayoutWithoutUrl(2, "b", 0)>>)
        ELSE Array(<<LayoutWithoutUrl(3, "c", 1), LayoutWithoutUrl(4, "d", 1)>>)])

\* three top-level layouts and one private one
RemoteWide ==
    Remote([k \in {LayoutKey(0, FALSE), LayoutKey(0, TRUE)} |->
        IF k = LayoutKey(0, FALSE)
        THEN Array(<<Layout(1, "a", 0), Layout(2, "b", 0), Layout(3, "c", 0)>>)
        ELSE Array(<<Layout(4, "d", 0)>>)])

\* the end-to-end site, but the children of layout 3 are answered with an
\* error document
RemoteErrorBody ==
    Remote([k \in {LayoutKey(0, FALSE), LayoutKey(1, FALSE), LayoutKey(3, FALSE)} |->
        IF k = LayoutKey(0, FALSE)
        THEN Array(<<Layout(1, "a", 0), Layout(2, "b", 0)>>)
        ELSE IF k = LayoutKey(1, FALSE)
        THEN Array(<<Layout(3, "c", 1)>>)
        ELSE ErrorObject])

Remotes == {RemoteEndToEnd, RemoteCyclic, RemoteSameSegment, RemoteWide,
            RemoteErrorBody}

----------------------------------------------------------------------------
(* State of a freshly constructed extractor, LiferayUrlExtractor.__init__ *)

PUBLIC == <<0>>
PRIVATE == <<1>>

PartitionOf(is_private) == IF is_private THEN "private" ELSE "public"

EmptyDict == [s \in {} |-> 0]

Put(f, k, v) == [x \in DOMAIN f \cup {k} |-> IF x = k THEN v ELSE f[x]]

\* self.stats, extractor.py 87-96 (the two timestamps are left out)
InitialStats ==
    [layouts_processed |-> 0, requests_made |-> 0, request_errors |-> 0,
     retries |-> 0, cache_hits |-> 0, cache_misses |-> 0]

\* self.site_structure = {"public": {}, "private": {}}, extractor.py 68
InitialStructure == [n \in {"public", "private"} |->
                        IF n = "public" THEN PUBLIC ELSE PRIVATE]
InitialHeap == [d \in {PUBLIC, PRIVATE} |-> EmptyDict]

\* the nested dict a dict object stands for, as json.dump writes it
RECURSIVE TreeValue(_, _)
TreeValue(h, d) ==
    [s \in DOMAIN h[d] |->
        [id |-> h[d][s].id, title |-> h[d][s].title,
         children |-> TreeValue(h, h[d][s].children)]]

StructureValue(structure, h) ==
    [n \in DOMAIN structure |-> TreeValue(h, structure[n])]

----------------------------------------------------------------------------
(* utils/helpers.py: the checkpoint *)

\* list(processed_layouts): the members in some order, each once
RECURSIVE list(_)
list(S) == IF S = {} THEN <<>>
           ELSE LET x == CHOOSE y \in S : TRUE IN <<x>> \o list(S \ {x})

\* convert_processed_layouts that loses the first member of the list
convert_processed_layouts_tail(layouts_list) ==
    {layouts_list[i] : i \in 2..Len(layouts_list)}

\* convert_processed_layouts: set(layouts_list)
convert_processed_layouts(layouts_list) ==
    {layouts_list[i] : i \in 1..Len(layouts_list)}

\* the document save_state writes, helpers.py 39-44
StateDocument(pages, layouts, st, structure_value) ==
    [all_pages |-> pages, processed_layouts |-> list(layouts), stats |-> st,
     site_structure |-> structure_value]

\* what load_state returns for a file it cannot read or parse (None), and
\* the empty JSON object: both are false for 'if state:'
NoDocument == [f \in {} |-> 0]

\* the checkpoint file: absent, holding a JSON object, or holding bytes that
\* are no JSON document (a write that stopped half way)
NoFile == [kind |-> "none", state |-> NoDocument]
Unparsable == [kind |-> "unparsable", state |-> NoDocument]

\* save_state that writes the site tree as two empty partitions
save_state_without_tree(pages, layouts, st, structure_value) ==
    [kind |-> "state",
     state |-> StateDocument(pages, layouts, st,
                             [n \in DOMAIN structure_value |-> EmptyDict])]

\* save_state, helpers.py 22-51: a full rewrite of the file
save_state(pages, layouts, st, structure_value) ==
    [kind |-> "state", state |-> StateDocument(pages, layouts, st, structure_value)]

\* load_state, helpers.py 53-71: the parsed document, None if the file is
\* missing or json.load raises
load_state(file) == IF file.kind = "state" THEN file.state ELSE NoDocument

\* state.get(field, default), extractor.py 118-121
Get(state, field, default) ==
    IF field \in DOMAIN state THEN state[field] ELSE default

\* The dict objects json.load builds for a nested dict: the object of the
\* dict at d, and below it one object per entry, numbered within its parent.
Rank(D) == CHOOSE f \in [D -> 1..Cardinality(D)] :
               \A x, y \in D : x # y => f[x] # f[y]

RECURSIVE LoadTree(_, _)
LoadTree(value, d) ==
    LET rank == Rank(DOMAIN value)
        here == [x \in {d} |->
                    [s \in DOMAIN value |->
                        [id |-> value[s].id, title |-> value[s].title,
                         children |-> Append(d, rank[s])]]]
        below == [s \in DOMAIN value |->
                    LoadTree(value[s].children, Append(d, rank[s]))]
        objs == {d} \cup UNION {DOMAIN below[s] : s \in DOMAIN value}
    IN  [o \in objs |->
            IF o = d THEN here[d]
            ELSE LET s == CHOOSE s \in DOMAIN value : o \in DOMAIN below[s]
                 IN  below[s][o]]

\* the objects of a loaded site_structure: partition n is rooted at <<2>>
\* (public) or <<3>> (private), apart from the objects this run creates
LoadedRoot(n) == IF n = "public" THEN <<2>> ELSE <<3>>

LoadedStructure(value) == [n \in DOMAIN value |-> LoadedRoot(n)]

LoadedHeap(value) ==
    LET parts == [n \in DOMAIN value |-> LoadTree(value[n], LoadedRoot(n))]
        objs == UNION {DOMAIN parts[n] : n \in DOMAIN value}
    IN  [o \in objs |->
            LET n == CHOOSE n \in DOMAIN value : o \in DOMAIN parts[n]
            IN  parts[n][o]]

----------------------------------------------------------------------------
(* core/cache.py *)

\* self.ttl = ttl * 3600, cache.py 40
TtlSeconds(hours) == hours * SecondsPerHour

\* cache_key of get_layouts (extractor.py 180) under the prefix of
\* get_or_fetch (cache.py 105)
CacheKey(parent_layout_id, is_private) ==
    <<"layout", parent_layout_id, is_private>>

\* is_valid that still accepts an entry at the instant it expires
is_valid_inclusive(cache_time, ttl, t) ==
    IF ttl <= 0 THEN FALSE ELSE (t - cache_time) <= ttl

\* CacheManager.is_valid at time t
is_valid(cache_time, ttl, t) ==
    IF ttl <= 0 THEN FALSE ELSE (t - cache_time) < ttl

\* get_or_fetch, cache.py 105-118: is the call answered from the store?
cache_lookup(db, full_key, ttl, t) ==
    /\ ttl > 0
    /\ full_key \in DOMAIN db
    /\ is_valid(db[full_key].time, ttl, t)

\* get_or_fetch that writes the store whatever the time-to-live
cache_store_always(db, full_key, data, ttl, t) ==
    Put(db, full_key, [time |-> t, content |-> data])

\* get_or_fetch that never writes the store
cache_store_dropped(db, full_key, data, ttl, t) == db

\* get_or_fetch, cache.py 124-130: the store after the fetch returned data
cache_store(db, full_key, data, ttl, t) ==
    IF ttl > 0 THEN Put(db, full_key, [time |-> t, content |-> data]) ELSE db

----------------------------------------------------------------------------
(* The memory a task step reads and writes, and the task frames *)

Mem == [all_pages |-> all_pages, processed_layouts |-> processed_layouts,
        heap |-> heap, stats |-> stats, tasks |-> tasks,
        cache_db |-> cache_db, request_semaphore |-> request_semaphore,
        issued |-> issued]

Commit(m) ==
    /\ all_pages' = m.all_pages
    /\ processed_layouts' = m.processed_layouts
    /\ heap' = m.heap
    /\ stats' = m.stats
    /\ tasks' = m.tasks
    /\ cache_db' = m.cache_db
    /\ request_semaphore' = m.request_semaphore
    /\ issued' = m.issued

\* a coroutine handed to gather / as_completed: kind "root" is
\* get_layouts(0, p), kind "child" is _fetch_child_layouts, kind "call" is a
\* bare request_with_retry.  A child task is named by the dict object that is
\* its structure_ref.  wait_time is the argument of the asyncio.sleep the
\* task is in (0 when it is not sleeping).  The frame keeps the return
\* statement its
\* request_with_retry call left through: "body" (session.py 107),
\* "exhausted" (116, 122) or "unexpected" (132).  order is the task's place
\* among the first steps the event loop has scheduled: gather schedules its
\* coroutines in argument order, as_completed a set of them in any order,
\* and the loop runs what it scheduled first in, first out.
NewTask(kind, parent_layout_id, is_private, parent_url, max_retries, order) ==
    [pc |-> "created", kind |-> kind, parent_layout_id |-> parent_layout_id,
     is_private |-> is_private, parent_url |-> parent_url, attempt |-> 0,
     max_retries |-> max_retries, result |-> EmptyList, nchildren |-> 0,
     returned |-> "none", wait_time |-> 0, order |-> order]

\* the coroutines of asyncio.as_completed, extractor.py 293, are scheduled
\* after the two root tasks, all at once
TopLevelOrder == 2

NoTasks == [t \in {} |-> 0]

----------------------------------------------------------------------------
(* core/extractor.py: the traversal, as functions of the memory *)

\* _process_layout that appends the record and leaves the counter alone
process_layout_uncounted(m, layout, parent_url, is_private) ==
    [m EXCEPT !.all_pages = Append(@, from_json(layout, parent_url, is_private, BaseUrl))]

\* _process_layout, extractor.py 331-347
process_layout(m, layout, parent_url, is_private) ==
    [m EXCEPT !.all_pages = Append(@, from_json(layout, parent_url, is_private, BaseUrl)),
              !.stats.layouts_processed = @ + 1]

\* a loop that keeps the slot of the first child with a segment and hands
\* its children map to the later ones
RECURSIVE child_loop_keeping_first(_, _, _, _)
child_loop_keeping_first(m, t, items, i) ==
    IF i > Len(items) THEN m
    ELSE LET layout == items[i]
             f == m.tasks[t]
             m1 == process_layout(m, layout, f.parent_url, f.is_private)
             layout_id == layout.layoutId
             friendly_url == lstrip(layout.friendlyURL)
             new_path == IF f.parent_url # <<>>
                         THEN f.parent_url \o <<Slash>> \o friendly_url
                         ELSE friendly_url
             child == Append(t, i)
             entry == IF friendly_url \in DOMAIN m.heap[t]
                      THEN m.heap[t][friendly_url]
                      ELSE [id |-> layout_id, title |-> layout.name, children |-> child]
             m2 == [m1 EXCEPT
                     !.heap = Put(Put(@, t, Put(@[t], friendly_url, entry)),
                                  child, EmptyDict),
                     !.tasks = Put(@, child,
                                   NewTask("child", layout_id, f.is_private,
                                           new_path, DefaultMaxRetries,
                                           Cardinality(DOMAIN m.tasks)))]
         IN  child_loop_keeping_first(m2, t, items, i + 1)

\* the loop of _fetch_child_layouts, extractor.py 371-393, from child i on
RECURSIVE child_loop(_, _, _, _)
child_loop(m, t, items, i) ==
    IF i > Len(items) THEN m
    ELSE LET layout == items[i]
             f == m.tasks[t]
             m1 == process_layout(m, layout, f.parent_url, f.is_private)
             layout_id == layout.layoutId
             friendly_url == lstrip(layout.friendlyURL)
             new_path == IF f.parent_url # <<>>
                         THEN f.parent_url \o <<Slash>> \o friendly_url
                         ELSE friendly_url
             child == Append(t, i)
             entry == [id |-> layout_id, title |-> layout.name, children |-> child]
             m2 == [m1 EXCEPT
                     !.heap = Put(Put(@, t, Put(@[t], friendly_url, entry)),
                                  child, EmptyDict),
                     !.tasks = Put(@, child,
                                   NewTask("child", layout_id, f.is_private,
                                           new_path, DefaultMaxRetries,
                                           Cardinality(DOMAIN m.tasks)))]
         IN  child_loop(m2, t, items, i + 1)

\* _fetch_child_layouts after get_layouts returned, extractor.py 363-397:
\* nothing to do for no children; iterating a JSON object yields its keys,
\* strings, and layout.get raises on the first; otherwise the children are
\* recorded and their expansions gathered.
fetch_child_layouts_resume(m, t, child_layouts) ==
    IF child_layouts.kind = "object"
    THEN [m EXCEPT !.tasks[t].pc = "raised"]
    ELSE IF child_layouts.items = <<>>
    THEN [m EXCEPT !.tasks[t].pc = "done"]
    ELSE [child_loop(m, t, child_layouts.items, 1) EXCEPT
             !.tasks[t].pc = "gather",
             !.tasks[t].nchildren = Len(child_layouts.items)]

\* get_layouts hands the layouts to its caller: the root coroutine ends with
\* them as its result, _fetch_child_layouts goes on
deliver(m, t, layouts) ==
    IF m.tasks[t].kind = "root"
    THEN [m EXCEPT !.tasks[t].pc = "done", !.tasks[t].result = layouts]
    ELSE fetch_child_layouts_resume(m, t, layouts)

\* get_layouts that counts a hit as a miss and a miss as a hit
get_layouts_return_swapped(m, t, layouts, from_cache) ==
    deliver([m EXCEPT !.stats.cache_hits = IF from_cache THEN @ ELSE @ + 1,
                      !.stats.cache_misses = IF from_cache THEN @ + 1 ELSE @],
            t, layouts)

\* get_layouts after get_or_fetch returned, extractor.py 200-206
get_layouts_return(m, t, layouts, from_cache) ==
    deliver([m EXCEPT !.stats.cache_hits = IF from_cache THEN @ + 1 ELSE @,
                      !.stats.cache_misses = IF from_cache THEN @ ELSE @ + 1],
            t, layouts)

\* get_or_fetch that stores a result only if it holds a layout
get_or_fetch_return_nonempty(m, t, data) ==
    LET f == m.tasks[t]
    IN  get_layouts_return(
            IF data = EmptyList THEN m
            ELSE [m EXCEPT !.cache_db =
                     cache_store(@, CacheKey(f.parent_layout_id, f.is_private),
                                 data, TtlSeconds(cache_ttl), now)],
            t, data, FALSE)

\* get_or_fetch after fetch_func returned, cache.py 121-132
get_or_fetch_return(m, t, data) ==
    LET f == m.tasks[t]
    IN  get_layouts_return(
            [m EXCEPT !.cache_db = cache_store(@, CacheKey(f.parent_layout_id, f.is_private),
                                               data, TtlSeconds(cache_ttl), now)],
            t, data, FALSE)

----------------------------------------------------------------------------
(* core/session.py: the transport *)

\* request_with_retry_enter without the admission gate
request_with_retry_enter_ungated(m, t) ==
    [m EXCEPT !.request_semaphore = @ - 1,
              !.tasks[t].pc = "attempt", !.tasks[t].attempt = 0]

\* request_with_retry up to its first suspension, session.py 90-104: take a
\* slot of the semaphore if one is free and start attempt 0, else wait
request_with_retry_enter(m, t) ==
    IF m.request_semaphore > 0
    THEN [m EXCEPT !.request_semaphore = @ - 1,
                   !.tasks[t].pc = "attempt", !.tasks[t].attempt = 0]
    ELSE [m EXCEPT !.tasks[t].pc = "sem"]

\* request_with_retry whose caller goes on inside the async with block: the
\* slot is kept while the children are expanded
request_with_retry_return_held(m, t, data, statement) ==
    LET m1 == [m EXCEPT !.tasks[t].returned = statement]
        m2 == IF m.tasks[t].kind = "call"
              THEN [m1 EXCEPT !.tasks[t].pc = "done", !.tasks[t].result = data]
              ELSE get_or_fetch_return(m1, t, data)
    IN  IF m2.tasks[t].pc = "gather" THEN m2
        ELSE [m2 EXCEPT !.request_semaphore = @ + 1]

\* request_with_retry returns data: the async with block is left, the slot
\* is released, and the caller goes on
request_with_retry_return(m, t, data, statement) ==
    LET m1 == [m EXCEPT !.request_semaphore = @ + 1,
                        !.tasks[t].returned = statement]
    IN  IF m.tasks[t].kind = "call"
        THEN [m1 EXCEPT !.tasks[t].pc = "done", !.tasks[t].result = data]
        ELSE get_or_fetch_return(m1, t, data)

\* a back-off that doubles the attempt index
backoff_doubled(attempt) == 2 * attempt

\* wait_time = 2 ** attempt, session.py 125
backoff(attempt) == 2 ^ attempt

\* a retry loop that takes one attempt more
last_attempt_late(f) == f.attempt = f.max_retries

\* is this attempt the last one?  session.py 114 and 120
last_attempt(f) == f.attempt = f.max_retries - 1

----------------------------------------------------------------------------
(* core/extractor.py: get_layouts up to its first suspension, 169-198 *)

\* get_layouts that forgets to mark the key as processed
get_layouts_unmarked(m, t) ==
    LET f == m.tasks[t]
        layout_key == LayoutKey(f.parent_layout_id, f.is_private)
        cache_key == CacheKey(f.parent_layout_id, f.is_private)
        m1 == [m EXCEPT !.issued[layout_key] = @ + 1]
    IN  IF layout_key \in m.processed_layouts
        THEN deliver(m, t, EmptyList)
        ELSE IF cache_lookup(m.cache_db, cache_key, TtlSeconds(cache_ttl), now)
        THEN get_layouts_return(m1, t, m.cache_db[cache_key].content, TRUE)
        ELSE request_with_retry_enter(
                 [m1 EXCEPT !.stats.requests_made = @ + 1], t)

\* get_layouts that marks the key but never looks at the visited set
get_layouts_unguarded(m, t) ==
    LET f == m.tasks[t]
        layout_key == LayoutKey(f.parent_layout_id, f.is_private)
        cache_key == CacheKey(f.parent_layout_id, f.is_private)
        m1 == [m EXCEPT !.processed_layouts = @ \cup {layout_key},
                        !.issued[layout_key] = @ + 1]
    IN  IF cache_lookup(m.cache_db, cache_key, TtlSeconds(cache_ttl), now)
        THEN get_layouts_return(m1, t, m.cache_db[cache_key].content, TRUE)
        ELSE request_with_retry_enter(
                 [m1 EXCEPT !.stats.requests_made = @ + 1], t)

\* get_layouts that counts a call for a visited key as a cache hit
get_layouts_counting_skips(m, t) ==
    LET f == m.tasks[t]
        layout_key == LayoutKey(f.parent_layout_id, f.is_private)
        cache_key == CacheKey(f.parent_layout_id, f.is_private)
        m1 == [m EXCEPT !.processed_layouts = @ \cup {layout_key},
                        !.issued[layout_key] = @ + 1]
    IN  IF layout_key \in m.processed_layouts
        THEN deliver([m EXCEPT !.stats.cache_hits = @ + 1], t, EmptyList)
        ELSE IF cache_lookup(m.cache_db, cache_key, TtlSeconds(cache_ttl), now)
        THEN get_layouts_return(m1, t, m.cache_db[cache_key].content, TRUE)
        ELSE request_with_retry_enter(
                 [m1 EXCEPT !.stats.requests_made = @ + 1], t)

get_layouts(m, t) ==
    LET f == m.tasks[t]
        layout_key == LayoutKey(f.parent_layout_id, f.is_private)
        cache_key == CacheKey(f.parent_layout_id, f.is_private)
        m1 == [m EXCEPT !.processed_layouts = @ \cup {layout_key},
                        !.issued[layout_key] = @ + 1]
    IN  IF layout_key \in m.processed_layouts
        THEN deliver(m, t, EmptyList)
        ELSE IF cache_lookup(m.cache_db, cache_key, TtlSeconds(cache_ttl), now)
        THEN get_layouts_return(m1, t, m.cache_db[cache_key].content, TRUE)
        ELSE request_with_retry_enter(
                 [m1 EXCEPT !.stats.requests_made = @ + 1], t)

----------------------------------------------------------------------------
(* The steps of the expansion tasks *)

config == <<remote, max_concurrent, cache_ttl, resume_extraction>>

\* the event loop is running tasks: main is suspended in fetch_all_layouts
\* or in close_session, or the transport is driven directly
LoopRunning == pc \in {"await_roots", "as_completed", "finally_ok",
                       "finally_exc", "closing", "transport"}

TaskKey(t) == LayoutKey(tasks[t].parent_layout_id, tasks[t].is_private)

Logged(t, outcome) ==
    log' = IF tasks[t].kind = "call"
           THEN [log EXCEPT ![t] = Append(@, outcome)]
           ELSE log

\* the tasks of m whose first step is the next the loop runs
NextToStart(m) ==
    {t \in DOMAIN m.tasks :
        /\ m.tasks[t].pc = "created"
        /\ \A u \in DOMAIN m.tasks :
              m.tasks[u].pc = "created" => m.tasks[u].order >= m.tasks[t].order}

\* a task created by gather / as_completed runs for the first time:
\* get_layouts as far as its first suspension (and, on a cache hit or an
\* already visited key, the whole expansion step)
TaskStart(t) ==
    /\ LoopRunning
    /\ t \in NextToStart(Mem)
    /\ tasks[t].kind # "call"
    /\ Commit(get_layouts(Mem, t))
    /\ cache_handle' = (cache_handle \/ TaskKey(t) \notin processed_layouts)
    /\ UNCHANGED <<config, state_file, now, site_structure, pc, periodic,
                   run, restored, faults, log>>

\* a waiter of the semaphore is woken with a slot free, session.py 94
Acquire(t) ==
    /\ LoopRunning
    /\ tasks[t].pc = "sem"
    /\ request_semaphore > 0
    /\ request_semaphore' = request_semaphore - 1
    /\ tasks' = [tasks EXCEPT ![t].pc = "attempt", ![t].attempt = 0]
    /\ UNCHANGED <<config, state_file, cache_db, now, cache_handle, all_pages,
                   processed_layouts, site_structure, heap, stats, pc,
                   periodic, run, restored, faults, issued, log>>

\* the response has status 200/201: return await response.json(), 105-107
AttemptSucceeds(t) ==
    /\ LoopRunning
    /\ tasks[t].pc = "attempt"
    /\ Commit(request_with_retry_return(Mem, t, remote[TaskKey(t)], "body"))
    /\ Logged(t, "ok")
    /\ UNCHANGED <<config, state_file, now, cache_handle, site_structure, pc, periodic,
                   run, restored, faults>>

\* the response has another status, 108-116: the empty list on the last
\* attempt, else the next attempt at once
AttemptHttpError(t) ==
    /\ LoopRunning
    /\ tasks[t].pc = "attempt"
    /\ faults < MaxFaults
    /\ faults' = faults + 1
    /\ IF last_attempt(tasks[t])
       THEN Commit(request_with_retry_return(Mem, t, EmptyList, "exhausted"))
       ELSE Commit([Mem EXCEPT !.tasks[t].attempt = @ + 1])
    /\ Logged(t, "status")
    /\ UNCHANGED <<config, state_file, now, cache_handle, site_structure, pc, periodic, run, restored>>

\* a transport that gives its slot back for the time of the back-off sleep
AttemptConnError_releasing(t) ==
    /\ LoopRunning
    /\ tasks[t].pc = "attempt"
    /\ faults < MaxFaults
    /\ faults' = faults + 1
    /\ IF last_attempt(tasks[t])
       THEN Commit(request_with_retry_return(Mem, t, EmptyList, "exhausted"))
       ELSE Commit([Mem EXCEPT !.request_semaphore = @ + 1,
                               !.tasks[t].pc = "sleep",
                               !.tasks[t].wait_time = backoff(tasks[t].attempt)])
    /\ Logged(t, "connection")
    /\ UNCHANGED <<config, state_file, now, cache_handle, site_structure, pc, periodic, run, restored>>

\* aiohttp.ClientError or asyncio.TimeoutError, 118-127: the empty list on
\* the last attempt, else sleep 2 ** attempt seconds
AttemptConnError(t) ==
    /\ LoopRunning
    /\ tasks[t].pc = "attempt"
    /\ faults < MaxFaults
    /\ faults' = faults + 1
    /\ IF last_attempt(tasks[t])
       THEN Commit(request_with_retry_return(Mem, t, EmptyList, "exhausted"))
       ELSE Commit([Mem EXCEPT !.tasks[t].pc = "sleep",
                               !.tasks[t].wait_time = backoff(tasks[t].attempt)])
    /\ Logged(t, "connection")
    /\ UNCHANGED <<config, state_file, now, cache_handle, site_structure, pc, periodic, run, restored>>

\* a transport that handles any other exception like a bad status
AttemptUnexpected_retried(t) ==
    /\ LoopRunning
    /\ tasks[t].pc = "attempt"
    /\ faults < MaxFaults
    /\ faults' = faults + 1
    /\ IF last_attempt(tasks[t])
       THEN Commit(request_with_retry_return(Mem, t, EmptyList, "exhausted"))
       ELSE Commit([Mem EXCEPT !.tasks[t].attempt = @ + 1])
    /\ Logged(t, "unexpected")
    /\ UNCHANGED <<config, state_file, now, cache_handle, site_structure, pc, periodic, run, restored>>

\* any other exception, 129-132: the empty list, no further attempt
AttemptUnexpected(t) ==
    /\ LoopRunning
    /\ tasks[t].pc = "attempt"
    /\ faults < MaxFaults
    /\ faults' = faults + 1
    /\ Commit(request_with_retry_return(Mem, t, EmptyList, "unexpected"))
    /\ Logged(t, "unexpected")
    /\ UNCHANGED <<config, state_file, now, cache_handle, site_structure, pc, periodic, run, restored>>

\* a retry loop that counts every attempt after a sleep as a request
BackoffEnds_counting(t) ==
    /\ LoopRunning
    /\ tasks[t].pc = "sleep"
    /\ tasks' = [tasks EXCEPT ![t].pc = "attempt", ![t].attempt = @ + 1,
                              ![t].wait_time = 0]
    /\ stats' = [stats EXCEPT !.requests_made = @ + 1]
    /\ UNCHANGED <<config, state_file, cache_db, now, cache_handle, all_pages,
                   processed_layouts, site_structure, heap,
                   request_semaphore, pc, periodic, run, restored, faults, issued, log>>

\* asyncio.sleep(wait_time) is over: the loop goes to the next attempt
BackoffEnds(t) ==
    /\ LoopRunning
    /\ tasks[t].pc = "sleep"
    /\ tasks' = [tasks EXCEPT ![t].pc = "attempt", ![t].attempt = @ + 1,
                              ![t].wait_time = 0]
    /\ UNCHANGED <<config, state_file, cache_db, now, cache_handle, all_pages,
                   processed_layouts, site_structure, heap, stats,
                   request_semaphore, pc, periodic, run, restored, faults, issued, log>>

ChildrenOf(t) == {Append(t, i) : i \in 1..tasks[t].nchildren}

\* await asyncio.gather(*tasks), extractor.py 396-397: every child returned
GatherReturns(t) ==
    /\ LoopRunning
    /\ tasks[t].pc = "gather"
    /\ \A c \in ChildrenOf(t) : tasks[c].pc = "done"
    /\ tasks' = [tasks EXCEPT ![t].pc = "done"]
    /\ UNCHANGED <<config, state_file, cache_db, now, cache_handle, all_pages,
                   processed_layouts, site_structure, heap, stats,
                   request_semaphore, pc, periodic, run, restored, faults, issued, log>>

\* gather hands the first exception of a child to the awaiting task, which
\* has no handler; the other children keep running
GatherRaises(t) ==
    /\ LoopRunning
    /\ tasks[t].pc = "gather"
    /\ \E c \in ChildrenOf(t) : tasks[c].pc = "raised"
    /\ tasks' = [tasks EXCEPT ![t].pc = "raised"]
    /\ UNCHANGED <<config, state_file, cache_db, now, cache_handle, all_pages,
                   processed_layouts, site_structure, heap, stats,
                   request_semaphore, pc, periodic, run, restored, faults, issued, log>>

----------------------------------------------------------------------------
(* main() and fetch_all_layouts *)

\* the fields __init__ sets, extractor.py 65-96
Constructed ==
    /\ all_pages' = <<>>
    /\ processed_layouts' = {}
    /\ site_structure' = InitialStructure
    /\ heap' = InitialHeap
    /\ stats' = InitialStats
    /\ request_semaphore' = 0
    /\ periodic' = "none"
    /\ tasks' = NoTasks
    /\ restored' = FALSE
    /\ faults' = 0
    /\ issued' = [k \in Keys |-> 0]
    /\ cache_handle' = FALSE

\* initialize_session that takes the checkpoint whether or not resumption
\* is asked for
initialize_session_always_resumes ==
    /\ pc = "constructed"
    /\ pc' = "initialized"
    /\ request_semaphore' = max_concurrent
    /\ cache_handle' = TRUE
    /\ LET state == load_state(state_file)
           structure_value == Get(state, "site_structure", NoDocument)
       IN  IF state_file.kind # "none" /\ state # NoDocument
           THEN /\ all_pages' = Get(state, "all_pages", <<>>)
                /\ processed_layouts' =
                      convert_processed_layouts(Get(state, "processed_layouts", <<>>))
                /\ stats' = Get(state, "stats", stats)
                /\ site_structure' = LoadedStructure(structure_value)
                /\ heap' = LoadedHeap(structure_value)
                /\ restored' = TRUE
           ELSE /\ UNCHANGED <<all_pages, processed_layouts, stats, site_structure, heap>>
                /\ restored' = FALSE
    /\ UNCHANGED <<config, state_file, cache_db, now, periodic, tasks, run,
                   faults, issued, log>>

\* initialize_session, extractor.py 98-130: the semaphore, the cache store,
\* and the checkpoint if resumption is asked for and the file exists
initialize_session ==
    /\ pc = "constructed"
    /\ pc' = "initialized"
    /\ request_semaphore' = max_concurrent
    /\ cache_handle' = TRUE
    /\ LET state == load_state(state_file)
           structure_value == Get(state, "site_structure", NoDocument)
       IN  IF resume_extraction /\ state_file.kind # "none" /\ state # NoDocument
           THEN /\ all_pages' = Get(state, "all_pages", <<>>)
                /\ processed_layouts' =
                      convert_processed_layouts(Get(state, "processed_layouts", <<>>))
                /\ stats' = Get(state, "stats", stats)
                /\ site_structure' = LoadedStructure(structure_value)
                /\ heap' = LoadedHeap(structure_value)
                /\ restored' = TRUE
           ELSE /\ UNCHANGED <<all_pages, processed_layouts, stats, site_structure, heap>>
                /\ restored' = FALSE
    /\ UNCHANGED <<config, state_file, cache_db, now, periodic, tasks, run,
                   faults, issued, log>>

\* fetch_all_layouts, extractor.py 226-236: the periodic task is created,
\* the two root fetches are gathered
fetch_all_layouts_begin ==
    /\ pc = "initialized"
    /\ pc' = "await_roots"
    /\ periodic' = "sleeping"
    /\ tasks' = [t \in {PUBLIC, PRIVATE} |->
                    NewTask("root", 0, t = PRIVATE, <<>>, DefaultMaxRetries,
                            IF t = PRIVATE THEN 1 ELSE 0)]
    /\ UNCHANGED <<config, state_file, cache_db, now, cache_handle, all_pages,
                   processed_layouts, site_structure, heap, stats,
                   request_semaphore, run, restored, faults, issued, log>>

\* the loops over the top-level layouts, extractor.py 247-264 and 267-284,
\* from layout i on
RECURSIVE top_level_loop(_, _, _, _)
top_level_loop(m, is_private, items, i) ==
    IF i > Len(items) THEN m
    ELSE LET layout == items[i]
             m1 == process_layout(m, layout, <<>>, is_private)
             layout_id == layout.layoutId
             friendly_url == lstrip(layout.friendlyURL)
             partition == site_structure[PartitionOf(is_private)]
             child == Append(IF is_private THEN PRIVATE ELSE PUBLIC, i)
             entry == [id |-> layout_id, title |-> layout.name, children |-> child]
             m2 == [m1 EXCEPT
                     !.heap = Put(Put(@, partition, Put(@[partition], friendly_url, entry)),
                                  child, EmptyDict),
                     !.tasks = Put(@, child,
                                   NewTask("child", layout_id, is_private,
                                           friendly_url, DefaultMaxRetries,
                                           TopLevelOrder))]
         IN  top_level_loop(m2, is_private, items, i + 1)

\* the finally block, extractor.py 299-305: cancel the periodic task and
\* await it
Finally(next) ==
    /\ pc' = next
    /\ periodic' = "cancelled"

\* fetch_all_layouts that goes on when the public root has returned
process_top_level_public_first ==
    /\ pc = "await_roots"
    /\ tasks[PUBLIC].pc = "done"
    /\ LET top_level_public == tasks[PUBLIC].result
           top_level_private == tasks[PRIVATE].result
           m1 == top_level_loop(Mem, FALSE, top_level_public.items, 1)
           m2 == top_level_loop(m1, TRUE, top_level_private.items, 1)
       IN  IF top_level_public.kind = "object"
           THEN Commit(Mem) /\ Finally("finally_exc")
           ELSE IF top_level_public.items # <<>> /\ "public" \notin DOMAIN site_structure
           THEN /\ Commit(process_layout(Mem, top_level_public.items[1], <<>>, FALSE))
                /\ Finally("finally_exc")
           ELSE IF top_level_private.kind = "object"
           THEN Commit([m1 EXCEPT !.tasks = tasks]) /\ Finally("finally_exc")
           ELSE IF top_level_private.items # <<>> /\ "private" \notin DOMAIN site_structure
           THEN /\ Commit([process_layout(m1, top_level_private.items[1], <<>>, TRUE)
                              EXCEPT !.tasks = tasks])
                /\ Finally("finally_exc")
           ELSE IF DOMAIN m2.tasks = DOMAIN tasks
           THEN Commit(m2) /\ Finally("finally_ok")
           ELSE Commit(m2) /\ pc' = "as_completed" /\ UNCHANGED periodic
    /\ UNCHANGED <<config, state_file, now, cache_handle, site_structure, run, restored, faults, log>>

\* gather returned the two top-level lists, extractor.py 236-297.  A JSON
\* object in place of a list raises in _process_layout; a site_structure
\* without the partition raises KeyError at the first layout, after
\* _process_layout recorded it (248-253, 268-273); the coroutines made
\* before the exception are never scheduled.
process_top_level ==
    /\ pc = "await_roots"
    /\ tasks[PUBLIC].pc = "done" /\ tasks[PRIVATE].pc = "done"
    /\ LET top_level_public == tasks[PUBLIC].result
           top_level_private == tasks[PRIVATE].result
           m1 == top_level_loop(Mem, FALSE, top_level_public.items, 1)
           m2 == top_level_loop(m1, TRUE, top_level_private.items, 1)
       IN  IF top_level_public.kind = "object"
           THEN Commit(Mem) /\ Finally("finally_exc")
           ELSE IF top_level_public.items # <<>> /\ "public" \notin DOMAIN site_structure
           THEN /\ Commit(process_layout(Mem, top_level_public.items[1], <<>>, FALSE))
                /\ Finally("finally_exc")
           ELSE IF top_level_private.kind = "object"
           THEN Commit([m1 EXCEPT !.tasks = tasks]) /\ Finally("finally_exc")
           ELSE IF top_level_private.items # <<>> /\ "private" \notin DOMAIN site_structure
           THEN /\ Commit([process_layout(m1, top_level_private.items[1], <<>>, TRUE)
                              EXCEPT !.tasks = tasks])
                /\ Finally("finally_exc")
           ELSE IF DOMAIN m2.tasks = DOMAIN tasks
           THEN Commit(m2) /\ Finally("finally_ok")
           ELSE Commit(m2) /\ pc' = "as_completed" /\ UNCHANGED periodic
    /\ UNCHANGED <<config, state_file, now, cache_handle, site_structure, run, restored, faults, log>>

TopLevelTasks == {t \in DOMAIN tasks : Len(t) = 2}

\* the as_completed loop, extractor.py 293-297: every child task returned
children_completed ==
    /\ pc = "as_completed"
    /\ \A t \in TopLevelTasks : tasks[t].pc = "done"
    /\ Finally("finally_ok")
    /\ UNCHANGED <<config, state_file, cache_db, now, cache_handle, all_pages,
                   processed_layouts, site_structure, heap, stats,
                   request_semaphore, tasks, run, restored, faults, issued, log>>

\* await child_task raises the exception of a child task
child_task_raised ==
    /\ pc = "as_completed"
    /\ \E t \in TopLevelTasks : tasks[t].pc = "raised"
    /\ Finally("finally_exc")
    /\ UNCHANGED <<config, state_file, cache_db, now, cache_handle, all_pages,
                   processed_layouts, site_structure, heap, stats,
                   request_semaphore, tasks, run, restored, faults, issued, log>>

\* save_current_state, extractor.py 144-156
save_current_state ==
    state_file' = save_state(all_pages, processed_layouts, stats,
                             StructureValue(site_structure, heap))

\* asyncio.sleep(interval) of the periodic task can be over, extractor.py
\* 226 and 324: the two root tasks, scheduled when the sleep began, have
\* taken their first step
SleepOver ==
    /\ periodic = "sleeping"
    /\ LoopRunning
    /\ \A t \in {PUBLIC, PRIVATE} : tasks[t].pc # "created"

\* _periodic_state_save, extractor.py 322-326: the sleep is over, the state
\* is saved, the task sleeps again
periodic_state_save ==
    /\ SleepOver
    /\ save_current_state
    /\ UNCHANGED <<config, cache_db, now, cache_handle, all_pages, processed_layouts,
                   site_structure, heap, stats, request_semaphore, pc,
                   periodic, tasks, run, restored, faults, issued, log>>

\* save_current_state when save_state fails, helpers.py 38-51 and
\* extractor.py 149-156: open() raised and the file is as it was, or the
\* write stopped after open() truncated the file; save_state returns False
\* and the failure is logged
save_current_state_fails == state_file' \in {state_file, Unparsable}

\* _periodic_state_save that is ended by a failing write
periodic_state_save_dies ==
    /\ SleepOver
    /\ faults < MaxFaults
    /\ faults' = faults + 1
    /\ save_current_state_fails
    /\ periodic' = "finished"
    /\ UNCHANGED <<config, cache_db, now, cache_handle, all_pages, processed_layouts,
                   site_structure, heap, stats, request_semaphore, pc,
                   tasks, run, restored, issued, log>>

\* _periodic_state_save when the write fails: the task sleeps again
periodic_state_save_fails ==
    /\ SleepOver
    /\ faults < MaxFaults
    /\ faults' = faults + 1
    /\ save_current_state_fails
    /\ UNCHANGED <<config, cache_db, now, cache_handle, all_pages, processed_layouts,
                   site_structure, heap, stats, request_semaphore, pc,
                   periodic, tasks, run, restored, issued, log>>

\* a periodic task that the cancellation reaches in the middle of a write
periodic_cancelled_mid_write ==
    /\ periodic = "cancelled"
    /\ periodic' = "finished"
    /\ state_file' = Unparsable
    /\ UNCHANGED <<config, cache_db, now, cache_handle, all_pages,
                   processed_layouts, site_structure, heap, stats,
                   request_semaphore, pc, tasks, run, restored, faults, issued, log>>

\* _periodic_state_save, extractor.py 327-329: CancelledError ends the task
periodic_cancelled ==
    /\ periodic = "cancelled"
    /\ periodic' = "finished"
    /\ UNCHANGED <<config, state_file, cache_db, now, cache_handle, all_pages,
                   processed_layouts, site_structure, heap, stats,
                   request_semaphore, pc, tasks, run, restored, faults, issued, log>>

\* fetch_all_layouts, extractor.py 307-313: the final save, then return
fetch_all_layouts_return ==
    /\ pc = "finally_ok"
    /\ periodic = "finished"
    /\ save_current_state
    /\ pc' = "returned"
    /\ UNCHANGED <<config, cache_db, now, cache_handle, all_pages, processed_layouts,
                   site_structure, heap, stats, request_semaphore, periodic,
                   tasks, run, restored, faults, issued, log>>

\* fetch_all_layouts, extractor.py 307-313, when the final write fails
fetch_all_layouts_return_unsaved ==
    /\ pc = "finally_ok"
    /\ periodic = "finished"
    /\ faults < MaxFaults
    /\ faults' = faults + 1
    /\ save_current_state_fails
    /\ pc' = "returned"
    /\ UNCHANGED <<config, cache_db, now, cache_handle, all_pages, processed_layouts,
                   site_structure, heap, stats, request_semaphore, periodic,
                   tasks, run, restored, issued, log>>

\* the exception leaves fetch_all_layouts without awaiting the periodic task
fetch_all_layouts_raise_unawaited ==
    /\ pc = "finally_exc"
    /\ pc' = "raised"
    /\ UNCHANGED <<config, state_file, cache_db, now, cache_handle, all_pages,
                   processed_layouts, site_structure, heap, stats,
                   request_semaphore, periodic, tasks, run, restored, faults, issued, log>>

\* the exception leaves fetch_all_layouts after the finally block
fetch_all_layouts_raise ==
    /\ pc = "finally_exc"
    /\ periodic = "finished"
    /\ pc' = "raised"
    /\ UNCHANGED <<config, state_file, cache_db, now, cache_handle, all_pages,
                   processed_layouts, site_structure, heap, stats,
                   request_semaphore, periodic, tasks, run, restored, faults, issued, log>>

\* the process ends: main.py 72-89 after fetch_all_layouts returned or raised
Exit ==
    /\ pc \in {"returned", "raised"}
    /\ pc' = "exited"
    /\ Constructed
    /\ UNCHANGED <<config, state_file, cache_db, now, run, log>>

\* main.py 72-85: after the export, or at once when fetch_all_layouts
\* raised, close_session is called and waits for the HTTP session to close
\* (extractor.py 132-139); the tasks that are still pending may run
close_session_begin ==
    /\ pc \in {"returned", "raised"}
    /\ pc' = "closing"
    /\ UNCHANGED <<config, state_file, cache_db, cache_handle, now, all_pages,
                   processed_layouts, site_structure, heap, stats,
                   request_semaphore, periodic, tasks, run, restored, faults,
                   issued, log>>

\* close_session that closes the HTTP session and leaves the cache open
close_session_end_session_only ==
    /\ pc = "closing"
    /\ pc' = "closed"
    /\ UNCHANGED <<config, state_file, cache_db, cache_handle, now, all_pages,
                   processed_layouts, site_structure, heap, stats,
                   request_semaphore, periodic, tasks, run, restored, faults,
                   issued, log>>

\* the session is closed: cache_manager.close(), extractor.py 141-142 and
\* cache.py 53-57, and main goes on to its end without another suspension
close_session_end ==
    /\ pc = "closing"
    /\ pc' = "closed"
    /\ cache_handle' = FALSE
    /\ UNCHANGED <<config, state_file, cache_db, now, all_pages,
                   processed_layouts, site_structure, heap, stats,
                   request_semaphore, periodic, tasks, run, restored, faults,
                   issued, log>>

\* asyncio.run cancels the tasks main left pending: CancelledError is
\* raised at the task's suspension point (or before its first step), passes
\* the handlers of request_with_retry, and releases the slot the task holds
Cancelled(t) ==
    /\ pc = "closed"
    /\ tasks[t].pc \notin {"done", "raised", "cancelled"}
    /\ tasks' = [tasks EXCEPT ![t].pc = "cancelled"]
    /\ request_semaphore' = IF tasks[t].pc \in {"attempt", "sleep"}
                            THEN request_semaphore + 1
                            ELSE request_semaphore
    /\ UNCHANGED <<config, state_file, cache_db, cache_handle, now, all_pages,
                   processed_layouts, site_structure, heap, stats, pc,
                   periodic, run, restored, faults, issued, log>>

\* asyncio.run returns: every task is finished
ProcessEnds ==
    /\ pc = "closed"
    /\ \A t \in DOMAIN tasks : tasks[t].pc \in {"done", "raised", "cancelled"}
    /\ pc' = "exited"
    /\ Constructed
    /\ UNCHANGED <<config, state_file, cache_db, now, run, log>>

\* the process is killed while fetch_all_layouts runs (the external
\* cancellation of spec section 7); storage is all that is left
Interrupt ==
    /\ pc \in {"await_roots", "as_completed", "finally_ok", "finally_exc"}
    /\ run < MaxRuns
    /\ pc' = "exited"
    /\ Constructed
    /\ UNCHANGED <<config, state_file, cache_db, now, run, log>>

\* the program is started again, with resumption on or off
NewRun ==
    /\ pc = "exited"
    /\ run < MaxRuns
    /\ run' = run + 1
    /\ pc' = "constructed"
    /\ resume_extraction' \in BOOLEAN
    /\ UNCHANGED <<remote, max_concurrent, cache_ttl, state_file, cache_db,
                   now, cache_handle, all_pages, processed_layouts, site_structure, heap,
                   stats, request_semaphore, periodic, tasks, restored, faults,
                   issued, log>>

\* an hour passes between two runs
Tick ==
    /\ pc = "exited"
    /\ run < MaxRuns
    /\ now < SecondsPerHour
    /\ now' = now + SecondsPerHour
    /\ UNCHANGED <<config, state_file, cache_db, cache_handle, all_pages,
                   processed_layouts, site_structure, heap, stats,
                   request_semaphore, pc, periodic, tasks, run, restored, faults,
                   issued, log>>

\* the four fields of a checkpoint document, helpers.py 39-44
CheckpointFields == {"all_pages", "processed_layouts", "stats", "site_structure"}

\* between two runs the checkpoint is replaced by a JSON object that holds
\* some of the four fields only (the file of another version, an edited file)
CheckpointReplaced ==
    /\ pc = "exited"
    /\ run < MaxRuns
    /\ state_file.kind = "state"
    /\ DOMAIN state_file.state = CheckpointFields
    /\ \E F \in {{}, {"all_pages"}, CheckpointFields \ {"site_structure"}} :
          state_file' = [kind |-> "state",
                         state |-> [f \in F |-> state_file.state[f]]]
    /\ UNCHANGED <<config, cache_db, now, cache_handle, all_pages, processed_layouts,
                   site_structure, heap, stats, request_semaphore, pc,
                   periodic, tasks, run, restored, faults, issued, log>>

\* the program is started for the first time against one of the remotes R:
\* no checkpoint, an empty cache store
Boot(R) ==
    /\ remote \in R
    /\ max_concurrent \in 1..MaxConcurrent
    /\ cache_ttl \in 0..MaxTtl
    /\ resume_extraction = TRUE
    /\ state_file = NoFile
    /\ cache_db = [k \in {} |-> 0]
    /\ cache_handle = FALSE
    /\ now = 0
    /\ all_pages = <<>>
    /\ processed_layouts = {}
    /\ site_structure = InitialStructure
    /\ heap = InitialHeap
    /\ stats = InitialStats
    /\ request_semaphore = 0
    /\ pc = "constructed"
    /\ periodic = "none"
    /\ tasks = NoTasks
    /\ run = 1
    /\ restored = FALSE
    /\ faults = 0
    /\ issued = [k \in Keys |-> 0]
    /\ log = <<>>

Init == Boot({RemoteEndToEnd, RemoteCyclic, RemoteDiamond, RemoteErrorBody})

\* the steps of a crawl up to the end of fetch_all_layouts
TraversalStep ==
    \/ \E t \in DOMAIN tasks : TaskStart(t)
    \/ \E t \in DOMAIN tasks : Acquire(t)
    \/ \E t \in DOMAIN tasks : AttemptSucceeds(t)
    \/ \E t \in DOMAIN tasks : GatherReturns(t)
    \/ \E t \in DOMAIN tasks : GatherRaises(t)
    \/ initialize_session
    \/ fetch_all_layouts_begin
    \/ process_top_level
    \/ children_completed
    \/ child_task_raised
    \/ periodic_cancelled
    \/ fetch_all_layouts_return
    \/ fetch_all_layouts_raise

\* the steps every crawl takes
CrawlStep ==
    \/ TraversalStep
    \/ Exit

\* Runs of any length against a remote that answers every request: the
\* periodic task saves, the process may be killed, and it is started again.
Next ==
    \/ CrawlStep
    \/ periodic_state_save
    \/ Interrupt
    \/ NewRun
    \/ Tick

Spec == Init /\ [][Next]_vars

\* One run, shorter than the interval of the periodic save, against a remote
\* whose answers may fail.
NextFaults ==
    \/ CrawlStep
    \/ \E t \in DOMAIN tasks : AttemptHttpError(t)
    \/ \E t \in DOMAIN tasks : AttemptConnError(t)
    \/ \E t \in DOMAIN tasks : AttemptUnexpected(t)
    \/ \E t \in DOMAIN tasks : BackoffEnds(t)

InitFaults == Boot(Remotes)

SpecFaults == InitFaults /\ [][NextFaults]_vars

\* The same run under the scheduling of the event loop: a task that is ready
\* is run, an attempt that was sent is answered or fails, a back-off sleep
\* ends.  Every step of the run is one of these, so the run goes on for as
\* long as a step is possible.
SpecFaultsFair == SpecFaults /\ WF_vars(NextFaults)

\* One run to the end of the process, with close_session and the
\* cancellation of the pending tasks as steps of their own.
NextClose ==
    \/ TraversalStep
    \/ close_session_begin
    \/ close_session_end
    \/ \E t \in DOMAIN tasks : Cancelled(t)
    \/ ProcessEnds

InitClose == Boot({RemoteEndToEnd, RemoteErrorBody, RemoteWide})

SpecClose == InitClose /\ [][NextClose]_vars

\* Runs with an unreliable checkpoint file: writes may fail, and the file a
\* run finds at startup may be unparsable or lack fields.  The remote
\* answers every request, nothing is cached.
NextStorage ==
    \/ CrawlStep
    \/ periodic_state_save
    \/ periodic_state_save_fails
    \/ fetch_all_layouts_return_unsaved
    \/ Interrupt
    \/ NewRun
    \/ CheckpointReplaced

InitStorage == Boot({RemoteEndToEnd, RemoteErrorBody}) /\ cache_ttl = 0

SpecStorage == InitStorage /\ [][NextStorage]_vars

----------------------------------------------------------------------------
(* The transport on its own: NumCallers concurrent request_with_retry calls *)

Callers == {<<i>> : i \in 1..NumCallers}

\* a caller runs request_with_retry as far as its first suspension
CallStart(t) ==
    /\ LoopRunning
    /\ tasks[t].pc = "created"
    /\ tasks[t].kind = "call"
    /\ Commit(request_with_retry_enter(Mem, t))
    /\ UNCHANGED <<config, state_file, now, cache_handle, site_structure, pc, periodic,
                   run, restored, faults, log>>

\* SessionManager.initialize was called, session.py 64-65; every caller
\* passes the same max_retries and asks for the children of the public root
InitTransport ==
    /\ remote = RemoteEndToEnd
    /\ max_concurrent \in 1..MaxConcurrent
    /\ cache_ttl = 0
    /\ resume_extraction = FALSE
    /\ state_file = NoFile
    /\ cache_db = [k \in {} |-> 0]
    /\ cache_handle = FALSE
    /\ now = 0
    /\ all_pages = <<>>
    /\ processed_layouts = {}
    /\ site_structure = InitialStructure
    /\ heap = InitialHeap
    /\ stats = InitialStats
    /\ request_semaphore = max_concurrent
    /\ pc = "transport"
    /\ periodic = "none"
    /\ \E n \in 1..MaxRetries :
        tasks = [t \in Callers |-> NewTask("call", 0, FALSE, <<>>, n, 0)]
    /\ run = 1
    /\ restored = FALSE
    /\ faults = 0
    /\ issued = [k \in Keys |-> 0]
    /\ log = [t \in Callers |-> <<>>]

NextTransport ==
    \/ \E t \in DOMAIN tasks : CallStart(t)
    \/ \E t \in DOMAIN tasks : Acquire(t)
    \/ \E t \in DOMAIN tasks : AttemptSucceeds(t)
    \/ \E t \in DOMAIN tasks : AttemptHttpError(t)
    \/ \E t \in DOMAIN tasks : AttemptConnError(t)
    \/ \E t \in DOMAIN tasks : AttemptUnexpected(t)
    \/ \E t \in DOMAIN tasks : BackoffEnds(t)

SpecTransport == InitTransport /\ [][NextTransport]_vars

----------------------------------------------------------------------------
(* The cache on its own: get_or_fetch calls one after the other *)

\* the instants the clock of the cache specification takes: every full hour
\* up to MaxHours, the second before it and the second after it
Instants == {h * SecondsPerHour + d : h \in 0..MaxHours, d \in {-1, 0, 1}} \cap Nat

CacheKeys == {CacheKey(0, FALSE), CacheKey(1, FALSE)}

\* what the n-th invocation of the fetch function returns
Fetched(n) == Array(<<Layout(n, "v", 0)>>)

Misses(l) == Cardinality({i \in 1..Len(l) : ~l[i].hit})

\* get_or_fetch with a fetch function that returns data, cache.py 91-132:
\* the value, the hit flag, the store afterwards
get_or_fetch(db, full_key, ttl, t, data) ==
    IF cache_lookup(db, full_key, ttl, t)
    THEN [value |-> db[full_key].content, hit |-> TRUE, db |-> db]
    ELSE [value |-> data, hit |-> FALSE,
          db |-> cache_store(db, full_key, data, ttl, t)]

CacheCall(k) ==
    /\ pc = "cache"
    /\ Len(log) < MaxCalls
    /\ LET r == get_or_fetch(cache_db, k, TtlSeconds(cache_ttl), now,
                             Fetched(Misses(log) + 1))
       IN  /\ cache_db' = r.db
           /\ log' = Append(log, [key |-> k, time |-> now, hit |-> r.hit,
                                  value |-> r.value])
    /\ cache_handle' = TRUE
    /\ UNCHANGED <<config, state_file, now, all_pages, processed_layouts,
                   site_structure, heap, stats, request_semaphore, pc,
                   periodic, tasks, run, restored, faults, issued>>

\* time passes between two calls
CacheTick ==
    /\ pc = "cache"
    /\ \E t \in Instants : t > now /\ now' = t
    /\ UNCHANGED <<config, state_file, cache_db, cache_handle, all_pages,
                   processed_layouts, site_structure, heap, stats,
                   request_semaphore, pc, periodic, tasks, run, restored,
                   faults, issued, log>>

InitCache ==
    /\ remote = RemoteEndToEnd
    /\ max_concurrent = 1
    /\ cache_ttl \in 0..MaxTtl
    /\ resume_extraction = FALSE
    /\ state_file = NoFile
    /\ cache_db = [k \in {} |-> 0]
    /\ cache_handle = FALSE
    /\ now = 0
    /\ all_pages = <<>>
    /\ processed_layouts = {}
    /\ site_structure = InitialStructure
    /\ heap = InitialHeap
    /\ stats = InitialStats
    /\ request_semaphore = 0
    /\ pc = "cache"
    /\ periodic = "none"
    /\ tasks = NoTasks
    /\ run = 1
    /\ restored = FALSE
    /\ faults = 0
    /\ issued = [k \in Keys |-> 0]
    /\ log = <<>>

NextCache ==
    \/ \E k \in CacheKeys : CacheCall(k)
    \/ CacheTick

SpecCache == InitCache /\ [][NextCache]_vars

\* The cache opened on a store an earlier run left behind (shelve.open,
\* cache.py 47-51): each key is absent or holds an entry written at time 0.
InitCacheStored ==
    /\ remote = RemoteEndToEnd
    /\ max_concurrent = 1
    /\ cache_ttl \in 0..MaxTtl
    /\ resume_extraction = FALSE
    /\ state_file = NoFile
    /\ \E K \in SUBSET CacheKeys :
          cache_db = [k \in K |-> [time |-> 0, content |-> Fetched(0)]]
    /\ cache_handle = FALSE
    /\ now = 0
    /\ all_pages = <<>>
    /\ processed_layouts = {}
    /\ site_structure = InitialStructure
    /\ heap = InitialHeap
    /\ stats = InitialStats
    /\ request_semaphore = 0
    /\ pc = "cache"
    /\ periodic = "none"
    /\ tasks = NoTasks
    /\ run = 1
    /\ restored = FALSE
    /\ faults = 0
    /\ issued = [k \in Keys |-> 0]
    /\ log = <<>>

SpecCacheStored == InitCacheStored /\ [][NextCache]_vars

----------------------------------------------------------------------------
(* The page record on its own: Page.from_json on one layout *)

\* strings of up to n tokens over "/" and the segment "c", no two segments
\* side by side
RECURSIVE Strings(_)
Strings(n) ==
    IF n = 0 THEN {<<>>}
    ELSE LET shorter == Strings(n - 1)
         IN  shorter \cup
             {Append(s, x) : s \in {t \in shorter : Len(t) = n - 1}, x \in {Slash, "c"}}

FriendlyUrls ==
    {s \in Strings(MaxTokens) :
        \A i \in 1..(Len(s) - 1) : s[i] = Slash \/ s[i + 1] = Slash}

ParentPaths == {<<>>, <<"a">>, <<"a", Slash, "b">>}

\* _process_layout, extractor.py 341-344: the record of the layout is made
\* and appended to the empty record list
page_from_json ==
    /\ pc = "page"
    /\ all_pages = <<>>
    /\ all_pages' = <<from_json(log.layout, log.parent_url, log.is_private, BaseUrl)>>
    /\ UNCHANGED <<config, state_file, cache_db, now, cache_handle, processed_layouts,
                   site_structure, heap, stats, request_semaphore, pc,
                   periodic, tasks, run, restored, faults, issued, log>>

\* the arguments of the call: a layout with some friendly URL, a parent path
InitPage ==
    /\ remote = RemoteEndToEnd
    /\ max_concurrent = 1
    /\ cache_ttl = 0
    /\ resume_extraction = FALSE
    /\ state_file = NoFile
    /\ cache_db = [k \in {} |-> 0]
    /\ cache_handle = FALSE
    /\ now = 0
    /\ all_pages = <<>>
    /\ processed_layouts = {}
    /\ site_structure = InitialStructure
    /\ heap = InitialHeap
    /\ stats = InitialStats
    /\ request_semaphore = 0
    /\ pc = "page"
    /\ periodic = "none"
    /\ tasks = NoTasks
    /\ run = 1
    /\ restored = FALSE
    /\ faults = 0
    /\ issued = [k \in Keys |-> 0]
    /\ \E F \in FriendlyUrls, P \in ParentPaths, is_private \in BOOLEAN :
          log = [layout |-> [layoutId |-> 1, friendlyURL |-> F, name |-> "c",
                             parentLayoutId |-> 0],
                 parent_url |-> P, is_private |-> is_private]

NextPage == page_from_json

SpecPage == InitPage /\ [][NextPage]_vars

----------------------------------------------------------------------------
(* exporters/txt_exporter.py: the URL list *)

\* the characters URLs are made of here, and their code points
Chars == {"-", Slash, "a"}
Code(c) == CASE c = "-" -> 45 [] c = Slash -> 47 [] c = "a" -> 97

\* s < t for Python strings: by code point, a proper prefix first
RECURSIVE StrLess(_, _)
StrLess(s, t) ==
    IF t = <<>> THEN FALSE
    ELSE IF s = <<>> THEN TRUE
    ELSE IF Code(Head(s)) # Code(Head(t)) THEN Code(Head(s)) < Code(Head(t))
    ELSE StrLess(Tail(s), Tail(t))

\* sorted(list): a stable sort into ascending order
RECURSIVE sorted(_)
sorted(l) ==
    IF l = <<>> THEN <<>>
    ELSE LET rest == sorted(Tail(l))
             before == {i \in 1..Len(rest) : StrLess(rest[i], Head(l))}
             n == Cardinality(before)
         IN  SubSeq(rest, 1, n) \o <<Head(l)>> \o SubSeq(rest, n + 1, Len(rest))

\* TXTExporter.export, txt_exporter.py 45-52: the lines written to the file
export(pages) ==
    LET urls == sorted([i \in 1..Len(pages) |-> pages[i].url])
    IN  [i \in 1..Len(urls) |->
            IF endswith(urls[i]) THEN DropLast(urls[i]) ELSE urls[i]]

\* the strings of up to n characters
RECURSIVE UrlStrings(_)
UrlStrings(n) ==
    IF n = 0 THEN {<<>>}
    ELSE LET shorter == UrlStrings(n - 1)
         IN  shorter \cup {Append(u, c) : u \in shorter, c \in Chars}

\* the record lists handed to the exporter
RECURSIVE PageLists(_)
PageLists(n) ==
    IF n = 0 THEN {<<>>}
    ELSE LET shorter == PageLists(n - 1)
         IN  shorter \cup {Append(l, [url |-> u]) : l \in shorter, u \in UrlStrings(MaxUrlLen)}

\* save_results calls the exporter on the record list; log is the file
txt_export ==
    /\ pc = "export"
    /\ pc' = "exported"
    /\ log' = export(all_pages)
    /\ UNCHANGED <<config, state_file, cache_db, cache_handle, now, all_pages,
                   processed_layouts, site_structure, heap, stats,
                   request_semaphore, periodic, tasks, run, restored, faults,
                   issued>>

InitExport ==
    /\ remote = RemoteEndToEnd
    /\ max_concurrent = 1
    /\ cache_ttl = 0
    /\ resume_extraction = FALSE
    /\ state_file = NoFile
    /\ cache_db = [k \in {} |-> 0]
    /\ cache_handle = FALSE
    /\ now = 0
    /\ all_pages \in PageLists(MaxPages)
    /\ processed_layouts = {}
    /\ site_structure = InitialStructure
    /\ heap = InitialHeap
    /\ stats = InitialStats
    /\ request_semaphore = 0
    /\ pc = "export"
    /\ periodic = "none"
    /\ tasks = NoTasks
    /\ run = 1
    /\ restored = FALSE
    /\ faults = 0
    /\ issued = [k \in Keys |-> 0]
    /\ log = <<>>

NextExport == txt_export

SpecExport == InitExport /\ [][NextExport]_vars

----------------------------------------------------------------------------
(* utils/helpers.py: the fingerprint of a site *)

Colon == ":"

\* hashlib.md5(data).hexdigest(): the digest is a function of the data; no
\* two of the strings below are taken to share a digest
md5(data) == <<"md5", data>>

\* the string that is hashed, helpers.py 84
key_data(base_url, group_id) == base_url \o <<Colon>> \o group_id

\* generate_cache_key, helpers.py 73-85
generate_cache_key(base_url, group_id) == md5(key_data(base_url, group_id))

\* the checkpoint file and the prefix of the cache store, extractor.py 76-84
state_file_name(cache_key) == <<"state_", cache_key, ".json">>
cache_db_path(cache_key) == <<cache_key, "_db">>

\* the values of LIFERAY_URL and GROUP_ID: strings of up to n characters
RECURSIVE ConfigStrings(_)
ConfigStrings(n) ==
    IF n = 0 THEN {<<>>}
    ELSE LET shorter == ConfigStrings(n - 1)
         IN  shorter \cup {Append(u, c) : u \in shorter, c \in {"h", Colon, "1"}}

\* an extractor is constructed for a site: log keeps the site and its files
extractor_constructed ==
    /\ pc = "fingerprint"
    /\ Len(log) < 2
    /\ \E base_url \in ConfigStrings(MaxConfigLen), group_id \in ConfigStrings(MaxConfigLen) :
          LET cache_key == generate_cache_key(base_url, group_id)
          IN  log' = Append(log, [liferay_url |-> base_url, group_id |-> group_id,
                                  cache_key |-> cache_key,
                                  state_file |-> state_file_name(cache_key),
                                  cache_db_path |-> cache_db_path(cache_key)])
    /\ UNCHANGED <<config, state_file, cache_db, cache_handle, now, all_pages,
                   processed_layouts, site_structure, heap, stats,
                   request_semaphore, pc, periodic, tasks, run, restored,
                   faults, issued>>

InitFingerprint ==
    /\ remote = RemoteEndToEnd
    /\ max_concurrent = 1
    /\ cache_ttl = 0
    /\ resume_extraction = FALSE
    /\ state_file = NoFile
    /\ cache_db = [k \in {} |-> 0]
    /\ cache_handle = FALSE
    /\ now = 0
    /\ all_pages = <<>>
    /\ processed_layouts = {}
    /\ site_structure = InitialStructure
    /\ heap = InitialHeap
    /\ stats = InitialStats
    /\ request_semaphore = 0
    /\ pc = "fingerprint"
    /\ periodic = "none"
    /\ tasks = NoTasks
    /\ run = 1
    /\ restored = FALSE
    /\ faults = 0
    /\ issued = [k \in Keys |-> 0]
    /\ log = <<>>

NextFingerprint == extractor_constructed

SpecFingerprint == InitFingerprint /\ [][NextFingerprint]_vars

----------------------------------------------------------------------------
(* Properties *)

\* the tasks that called get_layouts (they left the state "created")
Called == {t \in DOMAIN tasks : tasks[t].kind # "call" /\ tasks[t].pc # "created"}

\* the tasks inside request_with_retry
InTransport == {t \in DOMAIN tasks : tasks[t].pc \in {"sem", "attempt", "sleep"}}

\* C1: in every run and under every interleaving, get_or_fetch is called at
\* most once for a traversal key, the key is in the visited set from the
\* step that issues the call on, and no two tasks are in the transport for
\* the same key: a later get_layouts call for the key fetches nothing.
OneFetchPerKey ==
    /\ \A k \in Keys : issued[k] <= 1 /\ (issued[k] = 1 => k \in processed_layouts)
    /\ \A t1, t2 \in InTransport :
          tasks[t1].kind # "call" /\ tasks[t2].kind # "call" /\ TaskKey(t1) = TaskKey(t2)
              => t1 = t2

\* two tasks called get_layouts for the same key, and one fetch was issued
SecondCallForKey ==
    \E t1, t2 \in Called :
        /\ t1 # t2
        /\ TaskKey(t1) = TaskKey(t2)
        /\ issued[TaskKey(t1)] = 1

\* the calls that hold a slot: performing an attempt or waiting between two
InFlight == {t \in DOMAIN tasks : tasks[t].pc \in {"attempt", "sleep"}}

\* C2: the number of request_with_retry calls inside the admission gate
\* never exceeds max_concurrent, and the semaphore never goes negative.
AdmissionBound ==
    /\ Cardinality(InFlight) <= max_concurrent
    /\ request_semaphore >= 0

\* more calls are pending than max_concurrent = 2 admits: two are in
\* flight, another one waits for a slot
GateFullAndWaiting ==
    /\ max_concurrent = 2
    /\ Cardinality(InFlight) = 2
    /\ \E t \in DOMAIN tasks : tasks[t].pc = "sem"

----------------------------------------------------------------------------
(* The site a remote describes *)

RootKeys == {LayoutKey(0, FALSE), LayoutKey(0, TRUE)}

\* the traversal keys of the layouts listed under key k
ChildKeys(r, k) ==
    {LayoutKey(r[k].items[i].layoutId, k[2]) : i \in 1..Len(r[k].items)}

RECURSIVE Descend(_, _, _)
Descend(r, S, n) ==
    IF n = 0 THEN S
    ELSE Descend(r, S \cup UNION {ChildKeys(r, k) : k \in S \cup RootKeys}, n - 1)

\* the layouts reachable from the two roots, each named by its traversal key
Reachable(r) == Descend(r, {}, MaxLayoutId)

\* a finite forest whose siblings have distinct URL segments: every answer
\* is a list, no layout is listed twice or has the id of the roots, and no
\* two layouts of a list share their friendly URL
Forest(r) ==
    /\ \A k \in Keys : r[k].kind = "array"
    /\ \A k \in Keys : \A i \in 1..Len(r[k].items) :
          /\ r[k].items[i].layoutId # 0
          /\ \A j \in 1..Len(r[k].items) :
                r[k].items[i].friendlyURL = r[k].items[j].friendlyURL => i = j
    /\ \A k1, k2 \in Keys : k1 # k2 => ChildKeys(r, k1) \cap ChildKeys(r, k2) = {}
    /\ \A k \in Keys : Cardinality(ChildKeys(r, k)) = Len(r[k].items)

\* the tree of the forest below key k: one node per layout listed under k,
\* under its segment, holding the tree of its own children
RECURSIVE TreeBelow(_, _)
TreeBelow(r, k) ==
    LET items == r[k].items
        at(s) == CHOOSE i \in 1..Len(items) : lstrip(items[i].friendlyURL) = s
    IN  [s \in {lstrip(items[i].friendlyURL) : i \in 1..Len(items)} |->
            [id |-> items[at(s)].layoutId, title |-> items[at(s)].name,
             children |-> TreeBelow(r, LayoutKey(items[at(s)].layoutId, k[2]))]]

\* the layouts the record list holds, each named by its traversal key
Recorded == {LayoutKey(all_pages[i].id, all_pages[i].private) : i \in 1..Len(all_pages)}

\* C3: when a run that restored a checkpoint completes against a forest
\* that answers every request, the record list holds every layout reachable
\* from the two roots, the same set as an uninterrupted run.
ResumedRunRecordsEveryLayout ==
    (pc = "returned" /\ restored /\ Forest(remote))
        => Recorded = Reachable(remote)

\* C4: when fetch_all_layouts returns in a fresh run without a failing
\* attempt over a forest with distinct sibling segments, the record list
\* holds each reachable layout exactly once, layouts_processed is the number
\* of records, and the site tree is the forest: one node per record nested
\* in its parent's children map, the empty tree for a root without layouts
\* (3 records, 2 public entries, one 1-entry children map, an empty private
\* tree and layouts_processed = 3 for the end-to-end scenario).
FreshRunRecordsTheForest ==
    (pc = "returned" /\ run = 1 /\ faults = 0 /\ Forest(remote)) =>
        /\ Recorded = Reachable(remote)
        /\ Len(all_pages) = Cardinality(Reachable(remote))
        /\ stats.layouts_processed = Len(all_pages)
        /\ StructureValue(site_structure, heap) =
              [n \in {"public", "private"} |->
                  TreeBelow(remote, LayoutKey(0, n = "private"))]
        /\ \A n \in {"public", "private"} :
              remote[LayoutKey(0, n = "private")].items = <<>>
                  => heap[site_structure[n]] = EmptyDict
        /\ remote = RemoteEndToEnd =>
              /\ Len(all_pages) = 3
              /\ stats.layouts_processed = 3
              /\ DOMAIN heap[site_structure["public"]] = {<<"a">>, <<"b">>}
              /\ Cardinality(DOMAIN heap[heap[site_structure["public"]][<<"a">>].children]) = 1
              /\ heap[heap[site_structure["public"]][<<"b">>].children] = EmptyDict
              /\ heap[site_structure["private"]] = EmptyDict

\* the end-to-end scenario ran to its end without a failing attempt
EndToEndReturned ==
    /\ pc = "returned" /\ run = 1 /\ faults = 0
    /\ remote = RemoteEndToEnd
    /\ Len(all_pages) = 3

\* C5: for attempt outcomes among success, another HTTP status and a
\* connection or timeout error, a request_with_retry call with
\* max_retries = N makes at most N attempts, ends with the first success
\* and returns its body, or returns the empty list after exactly N failing
\* attempts, and never raises.
RetryContract ==
    \A t \in Callers :
        LET f == tasks[t]
            l == log[t]
        IN  (\A i \in 1..Len(l) : l[i] # "unexpected") =>
                /\ Len(l) <= f.max_retries
                /\ \A i \in 1..Len(l) : l[i] = "ok" => (i = Len(l) /\ f.pc = "done")
                /\ f.pc # "raised"
                /\ f.pc = "done" =>
                      /\ Len(l) >= 1
                      /\ IF l[Len(l)] = "ok"
                         THEN f.result = remote[TaskKey(t)]
                         ELSE Len(l) = f.max_retries /\ f.result = EmptyList

\* with max_retries = 2, one call succeeded on its second attempt and
\* another one returned the empty list after two failing attempts
SuccessAfterFailureAndExhaustion ==
    \E t1, t2 \in Callers :
        /\ tasks[t1].pc = "done" /\ log[t1] = <<"status", "ok">>
        /\ tasks[t1].result = remote[TaskKey(t1)]
        /\ tasks[t2].pc = "done" /\ log[t2] = <<"connection", "connection">>
        /\ tasks[t2].result = EmptyList

RECURSIVE SumOfAttempts(_)
SumOfAttempts(T) ==
    IF T = {} THEN 0
    ELSE LET t == CHOOSE x \in T : TRUE
         IN  tasks[t].attempt + SumOfAttempts(T \ {t})

\* the attempts that were retried: a call that is at attempt k, or left
\* at attempt k, retried k times
Retried == SumOfAttempts(DOMAIN tasks)

\* C6: when fetch_all_layouts returns from a fresh run in which every
\* transport call ended with a successful attempt, stats.retries is the
\* number of attempts that failed and were retried (k for a call that
\* succeeds on attempt k+1, nothing for one that succeeds at once).
RetriesCounted ==
    (pc = "returned" /\ \A t \in DOMAIN tasks : tasks[t].returned \in {"none", "body"})
        => stats.retries = Retried

\* the tasks created for the layouts listed under the key of task t
Below(t) == {c \in DOMAIN tasks : Len(c) = Len(t) + 1 /\ SubSeq(c, 1, Len(t)) = t}

\* C7: a key whose fetch exhausted its retries has no children (no task, no
\* record and no tree node below it), fetch_all_layouts does not fail, and
\* when it returns every other key was fetched and its children recorded.
ExhaustedFetchIsEmptyResult ==
    \A t \in DOMAIN tasks : tasks[t].returned = "exhausted" =>
        /\ Below(t) = {} /\ heap[t] = EmptyDict /\ tasks[t].pc = "done"
        /\ pc \notin {"finally_exc", "raised"}
        /\ pc = "returned" =>
              \A u \in DOMAIN tasks :
                  /\ tasks[u].pc = "done"
                  /\ tasks[u].returned = "body" =>
                        /\ Cardinality(Below(u)) = Len(remote[TaskKey(u)].items)
                        /\ ChildKeys(remote, TaskKey(u)) \subseteq Recorded

\* C8: no error raised while a node is expanded leaves fetch_all_layouts.
ExpansionErrorsStayInside == pc # "raised"

----------------------------------------------------------------------------
(* Properties of the cache *)

\* the last call before call j that missed for the key of call j (the call
\* that stored the entry call j finds), 0 if there is none
LastStore(l, j) ==
    LET S == {i \in 1..(j - 1) : l[i].key = l[j].key /\ ~l[i].hit}
    IN  IF S = {} THEN 0 ELSE CHOOSE i \in S : \A x \in S : x <= i

\* the call before call j for the key of call j, 0 if there is none
Previous(l, j) ==
    LET S == {i \in 1..(j - 1) : l[i].key = l[j].key}
    IN  IF S = {} THEN 0 ELSE CHOOSE i \in S : \A x \in S : x <= i

\* C9: of two successive get_or_fetch calls for a key within the
\* time-to-live window, the first one missing, the second is a hit with the
\* same value and invokes nothing; with a time-to-live of 0 every call is a
\* miss and invokes the fetch function.
TwoCallsOneFetch ==
    \A j \in 1..Len(log) :
        LET i == Previous(log, j)
        IN  /\ (/\ cache_ttl > 0 /\ i > 0 /\ ~log[i].hit
                 /\ log[j].time - log[i].time < TtlSeconds(cache_ttl))
                    => /\ log[j].hit
                       /\ log[j].value = log[i].value
            /\ cache_ttl = 0 => (~log[j].hit /\ log[j].value = Fetched(j))

\* a miss and then, later within the window, a hit with the same value
MissThenHit ==
    /\ cache_ttl > 0 /\ Len(log) >= 2
    /\ log[1].key = log[2].key
    /\ ~log[1].hit /\ log[2].hit
    /\ log[2].time > log[1].time
    /\ log[2].value = log[1].value /\ Misses(log) = 1

\* C10: a call is a hit exactly when an entry for its key was stored at a
\* time T with now - T < ttl (hours times 3600): valid before T + ttl,
\* invalid from T + ttl on; a call that is no hit invokes the fetch function
\* and returns what it fetched.
EntryValidWithinTtl ==
    \A j \in 1..Len(log) :
        LET i == LastStore(log, j)
        IN  /\ log[j].hit <=>
                  (/\ cache_ttl > 0 /\ i > 0
                   /\ log[j].time - log[i].time < cache_ttl * 3600)
            /\ log[j].hit => log[j].value = log[i].value
            /\ ~log[j].hit => log[j].value = Fetched(Misses(SubSeq(log, 1, j)))

\* an entry stored at 0 with a time-to-live of one hour: a hit one second
\* before the hour is over, a miss at the hour exactly
HitBeforeExpiryMissAtExpiry ==
    /\ cache_ttl = 1 /\ Len(log) = 3
    /\ \A j \in 1..3 : log[j].key = CacheKey(0, FALSE)
    /\ log[1].time = 0 /\ ~log[1].hit
    /\ log[2].time = 3599 /\ log[2].hit
    /\ log[3].time = 3600 /\ ~log[3].hit

\* C11: with a time-to-live of 0 no get_or_fetch call writes the store (the
\* entries stay those that were there before) and no call is a hit, even for
\* a key that has an entry.
ZeroTtlDisablesCache ==
    [][cache_ttl = 0 =>
          /\ cache_db' = cache_db
          /\ \A j \in 1..Len(log') : ~log'[j].hit]_vars

\* with a time-to-live of 0, a call was made for a key whose entry, written
\* at this very instant, is in the store
ZeroTtlCallOnStoredKey ==
    /\ cache_ttl = 0
    /\ Len(log) >= 1
    /\ log[1].key \in DOMAIN cache_db
    /\ log[1].time = cache_db[log[1].key].time

----------------------------------------------------------------------------
(* Properties of the checkpoint *)

\* C13: fetch_all_layouts returns from the finally block only, with the
\* periodic task finished and every expansion task done; when the save of
\* that step succeeds the file holds the four fields with exactly the final
\* record list, visited set and site tree; and the file is not written
\* again once fetch_all_layouts has returned.
FinalSaveIsLastWrite ==
    [][/\ (pc # "returned" /\ pc' = "returned") =>
             /\ pc = "finally_ok" /\ periodic = "finished"
             /\ \A t \in DOMAIN tasks : tasks[t].pc = "done"
             /\ faults' = faults =>
                   /\ state_file'.kind = "state"
                   /\ DOMAIN state_file'.state = CheckpointFields
                   /\ state_file'.state.all_pages = all_pages'
                   /\ convert_processed_layouts(state_file'.state.processed_layouts)
                         = processed_layouts'
                   /\ state_file'.state.site_structure
                         = StructureValue(site_structure', heap')
       /\ pc = "returned" => state_file' = state_file]_vars

\* the end-to-end crawl returned and its three records and their tree are
\* in the file, written over the snapshot the periodic task had saved
FinalSaveOfThreeRecords ==
    /\ pc = "returned" /\ run = 1 /\ faults = 0
    /\ Len(all_pages) = 3
    /\ state_file = save_state(all_pages, processed_layouts, stats,
                               StructureValue(site_structure, heap))
    /\ DOMAIN state_file.state.site_structure["public"] = {<<"a">>, <<"b">>}

\* C14: fetch_all_layouts is left, by return or by exception, only with the
\* periodic task cancelled and finished; awaiting the cancelled task never
\* turns a completed traversal into an exception; and once fetch_all_layouts
\* is left the periodic task saves nothing.
PeriodicTaskCancelledAndAwaited ==
    [][/\ (pc \notin {"returned", "raised"} /\ pc' \in {"returned", "raised"})
             => periodic = "finished" /\ periodic' = "finished"
       /\ pc' = "raised" => pc \in {"finally_exc", "raised"}
       /\ pc = "finally_ok" => pc' \in {"finally_ok", "returned", "exited"}
       /\ pc \in {"returned", "raised"} =>
             /\ state_file' = state_file
             /\ periodic' \in {"finished", "none"}]_vars

\* the traversal raised after the periodic task had saved a snapshot, and
\* the exception left fetch_all_layouts with the task finished
RaisedWithPeriodicTaskFinished ==
    /\ pc = "raised" /\ run = 1
    /\ periodic = "finished"
    /\ state_file.kind = "state"
    /\ \E t \in DOMAIN tasks : tasks[t].pc = "raised"

\* C15: a failing checkpoint write changes nothing in memory (record list,
\* visited set, site tree, statistics, tasks); the periodic task sleeps
\* again with its next save enabled, the final save lets fetch_all_layouts
\* return; the file is left as it was or truncated.
FailedSaveIsSkipped ==
    [][faults' = faults + 1 =>
          /\ UNCHANGED <<all_pages, processed_layouts, site_structure, heap,
                         stats, tasks>>
          /\ state_file' \in {state_file, Unparsable}
          /\ IF pc = "finally_ok"
             THEN pc' = "returned"
             ELSE /\ pc' = pc
                  /\ periodic' = "sleeping"
                  /\ pc' \in {"await_roots", "as_completed"}]_vars

\* a write failed in this run, the crawl went on with the periodic task
\* asleep, and the file holds the three records of a save that succeeded
SaveSucceedsAfterFailedSave ==
    /\ run = 1 /\ faults = 1
    /\ pc = "as_completed" /\ periodic = "sleeping"
    /\ Len(all_pages) = 3
    /\ state_file = save_state(all_pages, processed_layouts, stats,
                               StructureValue(site_structure, heap))

\* the file holds a JSON object with the four fields of a checkpoint
WellFormed(file) ==
    file.kind = "state" /\ DOMAIN file.state = CheckpointFields

\* C16: a run that finds at startup a checkpoint it cannot read, or one
\* that is not a well-formed checkpoint, starts with an empty record list,
\* an empty visited set and a tree of two empty partitions, and its
\* traversal of a forest does not raise.
UnreadableCheckpointIsFreshRun ==
    /\ (/\ pc = "initialized" /\ resume_extraction
        /\ state_file.kind # "none" /\ ~WellFormed(state_file))
          => /\ all_pages = <<>>
             /\ processed_layouts = {}
             /\ StructureValue(site_structure, heap)
                   = StructureValue(InitialStructure, InitialHeap)
    /\ Forest(remote) => pc # "raised"

----------------------------------------------------------------------------
(* Termination of the traversal *)

\* the traversal keys get_layouts was called with
CalledKeys == {TaskKey(t) : t \in Called}

RECURSIVE SumIssued(_)
SumIssued(K) ==
    IF K = {} THEN 0
    ELSE LET k == CHOOSE x \in K : TRUE
         IN  issued[k] + SumIssued(K \ {k})

\* the expansion tasks that created no child task
Leaves == {t \in DOMAIN tasks : tasks[t].kind = "child" /\ tasks[t].nchildren = 0}

\* a leaf ended at a key another call had visited before (no fetch was
\* issued for it), or at a fetch that gave no children
EndsAtVisitedOrChildless(t) ==
    /\ tasks[t].pc = "done"
    /\ \/ /\ tasks[t].returned = "none"
          /\ \E u \in Called \ {t} : TaskKey(u) = TaskKey(t) /\ tasks[u].returned # "none"
       \/ tasks[t].returned = "body" /\ remote[TaskKey(t)] = EmptyList
       \/ tasks[t].returned \in {"exhausted", "unexpected"}

\* C18: on every remote of the bounded id set, cyclic or with a layout under
\* several parents, and with attempts that may fail, fetch_all_layouts comes
\* to its end; fetches issued and requests made never exceed the number of
\* distinct traversal keys called; and when it returns, every branch has
\* ended at a layout without children or at a key visited before.
TraversalTerminates ==
    /\ <>(pc \in {"returned", "raised"})
    /\ [](/\ SumIssued(Keys) <= Cardinality(CalledKeys)
          /\ stats.requests_made <= Cardinality(CalledKeys)
          /\ pc = "returned" => \A t \in Leaves : EndsAtVisitedOrChildless(t))

\* the cyclic remote was crawled to the end: layouts 1 and 2 were each
\* expanded from two parents, one fetch went out for each of the four keys
\* (the two partitions, layouts 1 and 2), and the second
\* expansion of each ended at the visited key
CyclicRemoteReturned ==
    /\ remote = RemoteCyclic
    /\ pc = "returned"
    /\ SumIssued(Keys) = 4
    /\ Cardinality({t \in Leaves : tasks[t].returned = "none"}) = 2

----------------------------------------------------------------------------
(* The cache handle *)

\* a task makes a step of its own in this step (it is not cancelled)
TaskRuns ==
    \E t \in DOMAIN tasks :
        /\ t \in DOMAIN tasks'
        /\ tasks'[t] # tasks[t]
        /\ tasks'[t].pc # "cancelled"

----------------------------------------------------------------------------
(* Interleavings *)

\* the memory of a fresh run when both root calls have returned
RootsFetched ==
    [all_pages |-> <<>>, processed_layouts |-> RootKeys, heap |-> InitialHeap,
     stats |-> InitialStats, tasks |-> NoTasks, cache_db |-> [k \in {} |-> 0],
     request_semaphore |-> max_concurrent, issued |-> [k \in Keys |-> 0]]

\* the crawl in which the expansion tasks run one by one, each from its
\* start to the answer of its fetch
RECURSIVE OneByOne(_)
OneByOne(m) ==
    LET created == NextToStart(m)
    IN  IF created = {} THEN m
        ELSE LET t == CHOOSE u \in created : TRUE
                 key == LayoutKey(m.tasks[t].parent_layout_id, m.tasks[t].is_private)
                 m1 == get_layouts(m, t)
             IN  OneByOne(IF m1.tasks[t].pc = "attempt"
                          THEN request_with_retry_return(m1, t, remote[key], "body")
                          ELSE m1)

\* the memory at the end of the one-by-one crawl of the remote
Sequential ==
    OneByOne(top_level_loop(
                 top_level_loop(RootsFetched, FALSE,
                                remote[LayoutKey(0, FALSE)].items, 1),
                 TRUE, remote[LayoutKey(0, TRUE)].items, 1))

Records(pages) == {pages[i] : i \in 1..Len(pages)}

\* C22: a fresh run without a failing attempt that returns holds the same
\* set of page records and the same site tree as the run over the same
\* remote in which the expansion tasks run one by one, whatever the
\* interleaving of its fetch completions was.
SameContentsUnderEveryInterleaving ==
    (pc = "returned" /\ run = 1 /\ faults = 0) =>
        /\ Records(all_pages) = Records(Sequential.all_pages)
        /\ StructureValue(site_structure, heap) =
              StructureValue(site_structure, Sequential.heap)

----------------------------------------------------------------------------
(* The exported URL list *)

\* C23: the lines of the TXT file are in ascending order with no URL on two
\* lines (each line is less than the next), and no line ends with a slash.
TxtSortedUniqueStripped ==
    pc = "exported" =>
        /\ \A i \in 1..(Len(log) - 1) : StrLess(log[i], log[i + 1])
        /\ \A i \in 1..Len(log) : ~endswith(log[i])

----------------------------------------------------------------------------
(* The fingerprint *)

\* C24: two extractors constructed for different (base endpoint, group id)
\* pairs hash different strings, get different fingerprints, and so use
\* different checkpoint files and cache stores.
DistinctSitesDistinctFingerprints ==
    \A i, j \in 1..Len(log) :
        (log[i].liferay_url # log[j].liferay_url \/ log[i].group_id # log[j].group_id)
            => /\ key_data(log[i].liferay_url, log[i].group_id)
                     # key_data(log[j].liferay_url, log[j].group_id)
               /\ log[i].cache_key # log[j].cache_key
               /\ log[i].state_file # log[j].state_file
               /\ log[i].cache_db_path # log[j].cache_db_path

----------------------------------------------------------------------------
(* The transport: unexpected errors and the back-off *)

\* the outcome of the attempt caller t makes in this step, "" for none
Outcome(t) ==
    IF Len(log'[t]) = Len(log[t]) + 1 THEN log'[t][Len(log'[t])] ELSE ""

\* C25: the step in which an attempt of a call raises an unexpected error
\* ends the call with the empty list, whatever the attempt's index, and
\* gives the slot back; the call makes no step after it.
UnexpectedErrorEndsCall ==
    [][\A t \in Callers :
          /\ Outcome(t) = "unexpected" =>
                /\ tasks'[t].pc = "done"
                /\ tasks'[t].result = EmptyList
                /\ tasks'[t].attempt = tasks[t].attempt
                /\ request_semaphore' = request_semaphore + 1
          /\ (log[t] # <<>> /\ log[t][Len(log[t])] = "unexpected") =>
                tasks'[t] = tasks[t] /\ log'[t] = log[t]]_vars

\* a call with three attempts allowed was retried after a connection error,
\* met an unexpected error on its second attempt and has returned the
\* empty list, and every slot is free
UnexpectedErrorOnSecondOfThree ==
    \E t \in Callers :
        /\ tasks[t].max_retries = 3
        /\ log[t] = <<"connection", "unexpected">>
        /\ tasks[t].pc = "done"
        /\ tasks[t].result = EmptyList
        /\ request_semaphore = max_concurrent

\* C26: a connection or timeout error on attempt a that is not the last
\* one puts the call to sleep for 2^a seconds, and the next attempt, a + 1,
\* starts when the sleep ends; on the last attempt the call returns with no
\* sleep; after another HTTP status the next attempt starts in the same
\* step, with no sleep.  No call sleeps for any other reason.
BackoffDoublesFromOneSecond ==
    [][\A t \in Callers :
          LET f == tasks[t]
              final == f.attempt = f.max_retries - 1
          IN  /\ (Outcome(t) = "connection" /\ ~final) =>
                    /\ tasks'[t].pc = "sleep"
                    /\ tasks'[t].wait_time = 2 ^ f.attempt
                    /\ tasks'[t].attempt = f.attempt
              /\ (Outcome(t) = "connection" /\ final) =>
                    tasks'[t].pc = "done" /\ tasks'[t].wait_time = 0
              /\ (Outcome(t) = "status" /\ ~final) =>
                    /\ tasks'[t].pc = "attempt"
                    /\ tasks'[t].wait_time = 0
                    /\ tasks'[t].attempt = f.attempt + 1
              /\ (f.pc = "sleep" /\ tasks'[t] # f) =>
                    tasks'[t].pc = "attempt" /\ tasks'[t].attempt = f.attempt + 1
              /\ tasks'[t].pc = "sleep" =>
                    f.pc = "sleep" \/ Outcome(t) = "connection"]_vars

\* a call with max_retries = 3 failed twice by connection errors: it slept
\* one second after the first and is now in its sleep of two seconds
SleepsOneThenTwoSeconds ==
    \E t \in Callers :
        /\ tasks[t].max_retries = 3
        /\ log[t] = <<"connection", "connection">>
        /\ tasks[t].pc = "sleep"
        /\ tasks[t].attempt = 1
        /\ tasks[t].wait_time = 2

----------------------------------------------------------------------------
(* Resumption switched off *)

EmptyStructureValue == [n \in {"public", "private"} |-> EmptyDict]

\* C27: initialize_session of a run without resumption leaves the record
\* list empty, the visited set empty and the tree with two empty
\* partitions, and the checkpoint file as it is; the run then calls
\* get_or_fetch for both root keys; a step that writes the checkpoint
\* replaces the whole file by the state of that moment; and a checkpoint is
\* taken over only by initialize_session, with resumption on and the file
\* present.
ResumptionOffIgnoresCheckpoint ==
    [][/\ (pc = "constructed" /\ pc' = "initialized" /\ ~resume_extraction) =>
             /\ all_pages' = <<>>
             /\ processed_layouts' = {}
             /\ StructureValue(site_structure', heap') = EmptyStructureValue
             /\ ~restored'
             /\ state_file' = state_file
       /\ (~resume_extraction /\ pc = "await_roots" /\ pc' \notin {"await_roots", "exited"}) =>
             \A k \in RootKeys : issued'[k] = 1
       /\ state_file' # state_file =>
             state_file' = save_state(all_pages', processed_layouts', stats',
                                      StructureValue(site_structure', heap'))
       /\ (restored' /\ ~restored) =>
             pc = "constructed" /\ resume_extraction /\ state_file.kind = "state"
       /\ (pc # "constructed" /\ pc' # "exited") => restored' = restored]_vars

\* a second run without resumption has initialised: the checkpoint of the
\* first run, with its three records, is on disk and the run holds nothing
SecondRunStartsEmptyBesideCheckpoint ==
    /\ run = 2
    /\ ~resume_extraction
    /\ pc = "initialized"
    /\ state_file.kind = "state"
    /\ Len(state_file.state.all_pages) = 3
    /\ all_pages = <<>>
    /\ processed_layouts = {}
    /\ ~restored

\* the second run without resumption has returned with three records of
\* its own and its final save on disk
SecondRunReplacedCheckpoint ==
    /\ run = 2
    /\ ~resume_extraction
    /\ pc = "returned"
    /\ Len(all_pages) = 3
    /\ state_file = save_state(all_pages, processed_layouts, stats,
                               StructureValue(site_structure, heap))

----------------------------------------------------------------------------
(* A second run served by the cache *)

\* fetch_all_layouts returned and the process ends, main.py 72-89; the
\* records and the tree of the completed run are kept for comparison
RunCompleted ==
    /\ pc = "returned"
    /\ run < MaxRuns
    /\ pc' = "exited"
    /\ Constructed
    /\ log' = <<[all_pages |-> all_pages,
                 site_structure |-> StructureValue(site_structure, heap)]>>
    /\ UNCHANGED <<config, state_file, cache_db, now, run>>

\* the program is started again at once, without resumption, against the
\* same remote
Rerun ==
    /\ pc = "exited"
    /\ run < MaxRuns
    /\ run' = run + 1
    /\ pc' = "constructed"
    /\ resume_extraction' = FALSE
    /\ UNCHANGED <<remote, max_concurrent, cache_ttl, state_file, cache_db,
                   now, cache_handle, all_pages, processed_layouts, site_structure, heap,
                   stats, request_semaphore, periodic, tasks, restored, faults,
                   issued, log>>

InitRerun ==
    /\ Boot({RemoteEndToEnd, RemoteCyclic, RemoteDiamond, RemoteErrorBody})
    /\ cache_ttl > 0

NextRerun ==
    \/ TraversalStep
    \/ periodic_state_save
    \/ RunCompleted
    \/ Rerun

\* A run that completes with the cache on, and a second run without
\* resumption within the time-to-live.
SpecRerun == InitRerun /\ [][NextRerun]_vars

\* the second run of SpecRerun: the first one returned
SecondRun == run = 2 /\ Len(log) = 1

\* C28: with resumption off and the cache on, a second run started within
\* the time-to-live after a run that returned without a failing attempt
\* makes no transport call (requests_made and cache_misses stay 0, every
\* call of get_or_fetch is counted as a hit), and when it has returned it
\* holds the set of records and the tree the first run ended with.
RerunServedFromCache ==
    SecondRun =>
        /\ stats.requests_made = 0
        /\ stats.cache_misses = 0
        /\ \A t \in DOMAIN tasks : tasks[t].pc \notin {"sem", "attempt", "sleep"}
        /\ pc \in {"returned", "raised"} =>
              /\ stats.cache_hits = SumIssued(Keys)
              /\ Records(all_pages) = Records(log[1].all_pages)
              /\ StructureValue(site_structure, heap) = log[1].site_structure

\* the counters of the second run alone
RerunCountsHitsOnly ==
    SecondRun =>
        /\ stats.requests_made = 0
        /\ stats.cache_misses = 0
        /\ \A t \in DOMAIN tasks : tasks[t].pc \notin {"sem", "attempt", "sleep"}
        /\ pc \in {"returned", "raised"} => stats.cache_hits = SumIssued(Keys)

\* on a remote that is a forest the second run ends as the first
RerunOfForestSame ==
    (SecondRun /\ Forest(remote) /\ pc = "returned") =>
        /\ Records(all_pages) = Records(log[1].all_pages)
        /\ StructureValue(site_structure, heap) = log[1].site_structure

----------------------------------------------------------------------------
(* What a checkpoint marks as visited *)

\* save_current_state can run in this state: the periodic task wakes from
\* its sleep, or fetch_all_layouts is about to make its final save
CanSave ==
    \/ SleepOver
    \/ pc = "finally_ok" /\ periodic = "finished"

\* the fetch for key k is over and every layout the remote lists under k
\* has a record with k's layout as its parent
Completed(k) ==
    /\ \A t \in DOMAIN tasks :
          (tasks[t].kind # "call" /\ TaskKey(t) = k)
              => tasks[t].pc \notin {"sem", "attempt", "sleep"}
    /\ remote[k].kind = "array" =>
          \A i \in 1..Len(remote[k].items) :
              \E j \in 1..Len(all_pages) :
                  /\ all_pages[j].id = remote[k].items[i].layoutId
                  /\ all_pages[j].parent_id = k[1]
                  /\ all_pages[j].private = k[2]

\* C29: in every state in which a checkpoint can be written, every key of
\* the visited set has its fetch resolved and the children the remote
\* returned for it in the record list.
CheckpointMarksCompletedKeysOnly ==
    CanSave => \A k \in processed_layouts : Completed(k)

\* the same, of the first run of a process that fetches every key once
FirstRunCheckpointMarksCompletedKeysOnly ==
    (CanSave /\ run = 1 /\ Forest(remote)) =>
        \A k \in processed_layouts : Completed(k)

\* the final save of a fresh run over a forest is taken with every visited
\* key completed
FinalSaveMarksCompletedKeysOnly ==
    (pc = "finally_ok" /\ periodic = "finished" /\ ~restored /\ Forest(remote)) =>
        \A k \in processed_layouts : Completed(k)

----------------------------------------------------------------------------
(* A traversal that starts with both roots visited *)

\* the run took over a checkpoint whose visited set holds both root keys
RestoredWithRoots == restored /\ RootKeys \subseteq processed_layouts

----------------------------------------------------------------------------
(* A failed fetch in the cache *)

InitFaultsRerun ==
    /\ Boot({RemoteEndToEnd, RemoteErrorBody})
    /\ cache_ttl > 0

NextFaultsRerun ==
    \/ NextFaults
    \/ Rerun

\* A run with failing attempts and the cache on, and a second run within
\* the time-to-live.
SpecFaultsRerun == InitFaultsRerun /\ [][NextFaultsRerun]_vars

\* request_with_retry of task t gives up in this step: the last attempt
\* failed, or an attempt raised an unexpected error
GivesUp(t) ==
    /\ t \in DOMAIN tasks /\ t \in DOMAIN tasks'
    /\ tasks[t].pc = "attempt"
    /\ tasks'[t].returned \in {"exhausted", "unexpected"}

\* the store answers key k with the empty list
StoredEmpty(k) ==
    /\ CacheKey(k[1], k[2]) \in DOMAIN cache_db
    /\ cache_db[CacheKey(k[1], k[2])].content = EmptyList
    /\ cache_lookup(cache_db, CacheKey(k[1], k[2]), TtlSeconds(cache_ttl), now)

\* C31: with the cache on, the step in which a fetch gives up stores the
\* empty list under the key with the time of the step; and a task that
\* asks for a key stored so, within the time-to-live, is answered in its
\* first step with the empty list as a cache hit, without a transport call:
\* it creates no child, requests_made and cache_misses stay, cache_hits
\* grows by one and the store is left as it is.
FailedFetchIsCached ==
    [][/\ \A t \in DOMAIN tasks :
            (GivesUp(t) /\ cache_ttl > 0) =>
                /\ CacheKey(TaskKey(t)[1], TaskKey(t)[2]) \in DOMAIN cache_db'
                /\ cache_db'[CacheKey(TaskKey(t)[1], TaskKey(t)[2])] =
                      [time |-> now, content |-> EmptyList]
       /\ \A t \in DOMAIN tasks :
            (/\ t \in DOMAIN tasks'
             /\ tasks[t].pc = "created" /\ tasks'[t].pc # "created"
             /\ TaskKey(t) \notin processed_layouts
             /\ StoredEmpty(TaskKey(t))) =>
                /\ tasks'[t].pc = "done"
                /\ tasks'[t].result = EmptyList
                /\ tasks'[t].nchildren = 0
                /\ tasks'[t].returned = "none"
                /\ stats'.requests_made = stats.requests_made
                /\ stats'.cache_misses = stats.cache_misses
                /\ stats'.cache_hits = stats.cache_hits + 1
                /\ request_semaphore' = request_semaphore
                /\ cache_db' = cache_db
                /\ all_pages' = all_pages]_vars

\* the second run returned without a record: the first run gave up on the
\* public root, whose two layouts the remote still lists, and the second
\* was served the stored empty list
SecondRunServedTheFailure ==
    /\ run = 2
    /\ pc = "returned"
    /\ remote[LayoutKey(0, FALSE)] # EmptyList
    /\ StoredEmpty(LayoutKey(0, FALSE))
    /\ issued[LayoutKey(0, FALSE)] = 1
    /\ stats.requests_made = 0
    /\ stats.cache_hits = 2
    /\ all_pages = <<>>

----------------------------------------------------------------------------
(* The admission gate and the tree of tasks *)

\* the tasks that wait for a slot of the semaphore
Waiting == {t \in DOMAIN tasks : tasks[t].pc = "sem"}

\* the tasks that wait for the expansions of their children
Gathering == {t \in DOMAIN tasks : tasks[t].pc = "gather"}

\* C32: for every max_concurrent from 1 on, the slots taken are those of the
\* tasks inside request_with_retry, none of which has created a child, so
\* no task that waits for its children holds one; a task that waits for a
\* slot leaves the wait only by taking a slot; when fetch_all_layouts has
\* returned no task waits any more; and over a forest, under the
\* scheduling of the event loop, fetch_all_layouts returns.
GateNeverDeadlocks ==
    /\ Forest(remote) => <>(pc = "returned")
    /\ [](/\ pc \notin {"constructed", "exited"} =>
                max_concurrent - request_semaphore = Cardinality(InFlight)
          /\ \A t \in InFlight : tasks[t].nchildren = 0
          /\ Gathering \cap InFlight = {}
          /\ (Waiting # {} /\ request_semaphore = 0) => InFlight # {}
          /\ pc = "returned" => \A t \in DOMAIN tasks : tasks[t].pc = "done")
    /\ [][\A t \in Waiting :
             pc' # "exited" =>
                 \/ tasks'[t].pc = "sem"
                 \/ tasks'[t].pc = "attempt" /\ request_semaphore' = request_semaphore - 1]_vars

\* with one slot: an expansion waits for its child, the child waits for the
\* slot, and the slot is held by the fetch of another expansion
ChildWaitsWhileParentGathers ==
    /\ max_concurrent = 1
    /\ request_semaphore = 0
    /\ \E t \in Gathering : \E c \in ChildrenOf(t) : c \in Waiting
    /\ \E u \in InFlight : tasks[u].kind = "child"

----------------------------------------------------------------------------
(* The slot of a request_with_retry call *)

\* caller t holds a slot: it is in an attempt or in a back-off sleep
Holds(f) == f.pc \in {"attempt", "sleep"}

\* C33: in every state the free slots and the calls that hold one add up
\* to max_concurrent; a call takes its slot once, on entry, from the free
\* ones; keeps it over its attempts and back-off sleeps, whose steps leave
\* the count of free slots alone; gives it back in the step in which it
\* returns, by a success, after the last failing attempt or by an
\* unexpected error; and holds none afterwards.
SlotHeldFromEntryToExit ==
    [][/\ request_semaphore + Cardinality(InFlight) = max_concurrent
       /\ request_semaphore' + Cardinality({t \in Callers : Holds(tasks'[t])})
             = max_concurrent
       /\ \A t \in Callers :
            /\ (~Holds(tasks[t]) /\ Holds(tasks'[t])) =>
                  /\ tasks[t].pc \in {"created", "sem"}
                  /\ tasks'[t].pc = "attempt" /\ tasks'[t].attempt = 0
                  /\ request_semaphore > 0
                  /\ request_semaphore' = request_semaphore - 1
            /\ (Holds(tasks[t]) /\ Holds(tasks'[t]) /\ tasks'[t] # tasks[t]) =>
                  request_semaphore' = request_semaphore
            /\ (Holds(tasks[t]) /\ ~Holds(tasks'[t])) =>
                  /\ tasks'[t].pc = "done"
                  /\ tasks'[t].returned \in {"body", "exhausted", "unexpected"}
                  /\ request_semaphore' = request_semaphore + 1
            /\ tasks[t].pc = "done" => tasks'[t] = tasks[t]]_vars

\* three calls have returned, one by each return statement, the exhausted
\* one after a back-off sleep, and every slot is free again
AllExitPathsReleased ==
    /\ request_semaphore = max_concurrent
    /\ \A t \in Callers : tasks[t].pc = "done"
    /\ \E t \in Callers : tasks[t].returned = "body"
    /\ \E t \in Callers : tasks[t].returned = "unexpected"
    /\ \E t \in Callers :
          /\ tasks[t].returned = "exhausted"
          /\ log[t] = <<"connection", "status">>

----------------------------------------------------------------------------
(* The two roots come first *)

RootTasks == {PUBLIC, PRIVATE}

\* both root calls of get_layouts have returned
RootsReturned ==
    \A t \in RootTasks : t \in DOMAIN tasks /\ tasks[t].pc = "done"

\* C34: while a root call has not returned there is no expansion task and
\* get_or_fetch was called for no key other than the roots; the expansion
\* tasks of the top-level layouts of both partitions are created in the
\* step after both returned; and below the root, the step in which the
\* fetch of an expansion returns a list of layouts creates the expansion
\* task of each of them, whatever the other tasks are doing.
RootsBeforeExpansions ==
    [][/\ (LoopRunning /\ ~RootsReturned) =>
             /\ DOMAIN tasks \subseteq RootTasks
             /\ \A k \in Keys \ RootKeys : issued[k] = 0
       /\ (DOMAIN tasks \subseteq RootTasks /\ ~(DOMAIN tasks' \subseteq RootTasks)) =>
             /\ RootsReturned
             /\ pc = "await_roots"
             /\ DOMAIN tasks' \ RootTasks =
                   {Append(PUBLIC, i) : i \in 1..Len(tasks[PUBLIC].result.items)}
                   \cup {Append(PRIVATE, i) : i \in 1..Len(tasks[PRIVATE].result.items)}
       /\ \A t \in DOMAIN tasks \ RootTasks :
             (/\ t \in DOMAIN tasks'
              /\ tasks[t].pc \in {"created", "attempt"}
              /\ tasks'[t].pc = "gather") =>
                  /\ tasks'[t].nchildren > 0
                  /\ \A i \in 1..tasks'[t].nchildren :
                        /\ Append(t, i) \notin DOMAIN tasks
                        /\ Append(t, i) \in DOMAIN tasks'
                        /\ tasks'[Append(t, i)].pc = "created"]_vars

\* the fetch of a second-level expansion is under way while the expansion
\* of another top-level layout has not had its answer
GrandchildFetchedBesideTopLevel ==
    /\ RootsReturned
    /\ \E c \in DOMAIN tasks : Len(c) = 3 /\ tasks[c].pc = "attempt"
    /\ \E u \in DOMAIN tasks : Len(u) = 2 /\ tasks[u].pc \in {"sem", "attempt"}

----------------------------------------------------------------------------
(* Records, counter and tree move together *)

\* no two layouts of one answer of the remote share their friendly URL
DistinctSiblings(r) ==
    \A k \in Keys : \A i, j \in 1..Len(r[k].items) :
        r[k].items[i].friendlyURL = r[k].items[j].friendlyURL => i = j

\* the id of the node the dumped tree holds at a path of segments joined by
\* slashes, -1 if it holds none
RECURSIVE NodeId(_, _)
NodeId(dict, path) ==
    IF path = <<>> \/ <<path[1]>> \notin DOMAIN dict THEN -1
    ELSE IF Len(path) = 1 THEN dict[<<path[1]>>].id
    ELSE NodeId(dict[<<path[1]>>].children, SubSeq(path, 3, Len(path)))

\* the counter is the number of records, and each record has its node, with
\* its id, at its path in the tree of its partition
Coherent(pages, st, structure_value) ==
    /\ st.layouts_processed = Len(pages)
    /\ DistinctSiblings(remote) =>
          \A i \in 1..Len(pages) :
              /\ PartitionOf(pages[i].private) \in DOMAIN structure_value
              /\ NodeId(structure_value[PartitionOf(pages[i].private)], pages[i].path)
                    = pages[i].id

\* the state of the crawl between two steps of the event loop
CoherentInMemory ==
    Coherent(all_pages, stats, StructureValue(site_structure, heap))

\* the checkpoint on disk, if it is one save_state wrote
CoherentOnDisk ==
    (state_file.kind = "state" /\ DOMAIN state_file.state = CheckpointFields) =>
        Coherent(state_file.state.all_pages, state_file.state.stats,
                 state_file.state.site_structure)

\* C35: in every state between two steps of the event loop, and in every
\* checkpoint the program wrote, layouts_processed is the length of the
\* record list and, for a remote with distinct segments among siblings,
\* every record has a node with its id in the site tree.
RecordsCounterAndTreeAgree == CoherentInMemory /\ CoherentOnDisk

\* the same, of the runs that did not take over a checkpoint
FreshRecordsCounterAndTreeAgree == ~restored => CoherentInMemory

----------------------------------------------------------------------------
(* Requests, hits, misses and the visited set *)

\* C36: in a run that took over no checkpoint, in every state requests_made
\* is at least cache_misses and cache_hits + cache_misses is at most the
\* size of the visited set; every call of get_or_fetch is a hit or one
\* request, however many attempts the request takes; and when
\* fetch_all_layouts has returned cache_hits + cache_misses is the size of
\* the visited set and requests_made equals cache_misses.
RequestsHitsMissesAndVisited ==
    ~restored =>
        /\ stats.requests_made >= stats.cache_misses
        /\ stats.cache_hits + stats.cache_misses <= Cardinality(processed_layouts)
        /\ stats.requests_made + stats.cache_hits <= SumIssued(Keys)
        /\ SumIssued(Keys) = Cardinality(processed_layouts)
        /\ pc = "returned" =>
              /\ stats.cache_hits + stats.cache_misses = Cardinality(processed_layouts)
              /\ stats.requests_made = stats.cache_misses
              /\ stats.requests_made + stats.cache_hits = SumIssued(Keys)

\* the end-to-end site was crawled with two attempts retried after a
\* sleep: five keys visited, five requests, five misses
FiveRequestsSevenAttempts ==
    /\ ~restored
    /\ pc = "returned"
    /\ Cardinality(processed_layouts) = 5
    /\ stats.requests_made = 5
    /\ stats.cache_misses = 5
    /\ Retried = 2
    /\ \E t \in DOMAIN tasks : tasks[t].attempt = 2

----------------------------------------------------------------------------
(* A checkpoint write is one step of the loop *)

\* C37: a step that writes the checkpoint changes neither the record list,
\* the visited set, the site tree, the statistics nor any task, and the file
\* it leaves is save_state of the state it started in; it is a step of the
\* periodic task whose sleep is over, which sleeps again, or the final save
\* after the periodic task has ended.  The periodic task is cancelled only
\* while it sleeps, and neither the cancelling step nor the step in which
\* the cancelled task ends touches the file.
SnapshotIsOneState ==
    [][/\ state_file' # state_file =>
             /\ UNCHANGED <<all_pages, processed_layouts, site_structure, heap,
                            stats, tasks, periodic>>
             /\ state_file' = save_state(all_pages, processed_layouts, stats,
                                         StructureValue(site_structure, heap))
             /\ \/ SleepOver /\ pc' = pc
                \/ pc = "finally_ok" /\ periodic = "finished" /\ pc' = "returned"
       /\ (periodic' = "cancelled" /\ periodic # "cancelled") =>
             /\ periodic = "sleeping"
             /\ state_file' = state_file
       /\ periodic = "cancelled" => state_file' = state_file]_vars

\* the periodic task saved while expansions were in flight and was then
\* cancelled: the file holds the records of that moment, the crawl has more
CancelledAfterSnapshotMidCrawl ==
    /\ run = 1
    /\ pc = "finally_ok"
    /\ periodic = "finished"
    /\ state_file.kind = "state"
    /\ Len(state_file.state.all_pages) > 0
    /\ Len(state_file.state.all_pages) < Len(all_pages)
    /\ state_file.state.stats.layouts_processed = Len(state_file.state.all_pages)

----------------------------------------------------------------------------
(* Siblings with the same URL segment *)

\* One run over a site in which siblings share a segment or have none.
InitSiblings ==
    Boot({RemoteSameSegment, RemoteSameSegmentBelow, RemoteNoFriendlyURL})

NextSiblings ==
    \/ \E t \in DOMAIN tasks : TaskStart(t)
    \/ \E t \in DOMAIN tasks : Acquire(t)
    \/ \E t \in DOMAIN tasks : AttemptSucceeds(t)
    \/ \E t \in DOMAIN tasks : GatherReturns(t)
    \/ initialize_session
    \/ fetch_all_layouts_begin
    \/ process_top_level
    \/ children_completed
    \/ periodic_state_save
    \/ periodic_cancelled
    \/ fetch_all_layouts_return

SpecSiblings == InitSiblings /\ [][NextSiblings]_vars

\* the dict object the loop of task t writes its children into: the
\* partition for a root call, structure_ref for an expansion
DictOf(t) ==
    IF tasks[t].kind = "root"
    THEN site_structure[PartitionOf(tasks[t].is_private)]
    ELSE t

\* the layouts the loop of task t went through
ItemsOf(t) == remote[TaskKey(t)].items

\* the siblings after child i of task t that have its segment
Later(t, i) ==
    {j \in (i + 1)..Len(ItemsOf(t)) :
        lstrip(ItemsOf(t)[j].friendlyURL) = lstrip(ItemsOf(t)[i].friendlyURL)}

\* the dict objects reached from dict object d through children maps
RECURSIVE ObjectsBelow(_, _)
ObjectsBelow(h, d) ==
    {d} \cup UNION {ObjectsBelow(h, h[d][s].children) : s \in DOMAIN h[d]}

ReachableObjects ==
    UNION {ObjectsBelow(heap, site_structure[n]) : n \in DOMAIN site_structure}

\* C38: once the loop over the children returned for a parent has run, every
\* child has its record in the flat list and its expansion task, which has
\* fetched its key when the run returns; the parent's children map has one
\* slot per segment (the empty segment of children without friendlyURL
\* included), holding the id, the title and the children map of the last
\* child with that segment; the children map of an earlier child with the
\* segment is not reachable from the site tree, and the entries of that
\* child's own children are in it.
SameSegmentSiblingsShareOneSlot ==
    \A t \in DOMAIN tasks : Below(t) # {} =>
        LET items == ItemsOf(t)
            d == DictOf(t)
        IN  /\ Below(t) = {Append(t, i) : i \in 1..Len(items)}
            /\ DOMAIN heap[d] = {lstrip(items[i].friendlyURL) : i \in 1..Len(items)}
            /\ \A i \in 1..Len(items) :
                  LET c == Append(t, i)
                      segment == lstrip(items[i].friendlyURL)
                  IN  /\ \E j \in 1..Len(all_pages) :
                            all_pages[j] = from_json(items[i], tasks[t].parent_url,
                                                     tasks[t].is_private, BaseUrl)
                      /\ tasks[c].kind = "child"
                      /\ tasks[c].parent_layout_id = items[i].layoutId
                      /\ pc = "returned" =>
                            /\ tasks[c].pc = "done"
                            /\ TaskKey(c) \in processed_layouts
                      /\ IF Later(t, i) = {}
                         THEN /\ heap[d][segment] =
                                    [id |-> items[i].layoutId, title |-> items[i].name,
                                     children |-> c]
                              /\ d \in ReachableObjects => c \in ReachableObjects
                         ELSE /\ heap[d][segment].id # items[i].layoutId
                              /\ heap[d][segment].children # c
                              /\ c \notin ReachableObjects
                              /\ Below(c) # {} =>
                                    /\ heap[c] # EmptyDict
                                    /\ \A s \in DOMAIN heap[c] :
                                          heap[c][s].children \notin ReachableObjects

\* two children of layout 1 have the segment b and the earlier has a child:
\* four records, the tree holds a and below it one b with the later id and
\* no children, and the entry of the grandchild is in a map the tree does
\* not reach
EarlierSiblingSubtreeUnreachable ==
    /\ pc = "returned"
    /\ Len(all_pages) = 4
    /\ \E t \in DOMAIN tasks : \E i \in 1..Len(ItemsOf(t)) :
          /\ tasks[t].kind = "child"
          /\ Later(t, i) # {}
          /\ heap[Append(t, i)] # EmptyDict
          /\ Append(t, i) \notin ReachableObjects
          /\ Cardinality(DOMAIN heap[t]) = 1
          /\ \A s \in DOMAIN heap[t] :
                /\ heap[t][s].id = 3
                /\ heap[heap[t][s].children] = EmptyDict

\* the same at the top level and with children without friendlyURL: one
\* slot under the empty segment with the later id, both siblings recorded
UnnamedSiblingsShareTheEmptySlot ==
    /\ pc = "returned"
    /\ remote = RemoteNoFriendlyURL
    /\ Len(all_pages) = 4
    /\ DOMAIN heap[site_structure["public"]] = {<<>>}
    /\ heap[site_structure["public"]][<<>>].id = 2
    /\ heap[heap[site_structure["public"]][<<>>].children] = EmptyDict

----------------------------------------------------------------------------
(* The statistics *)

\* C19: when fetch_all_layouts has ended and a fetch of the run gave up
\* after its last attempt, request_errors is greater than at the start of
\* the run (every run of this specification starts from the constructor's
\* statistics).
ExhaustedFetchCountsAsError ==
    (/\ pc \in {"returned", "raised"}
     /\ \E t \in DOMAIN tasks : tasks[t].returned = "exhausted")
        => stats.request_errors > InitialStats.request_errors

\* the counters of the statistics
Counters == {"layouts_processed", "requests_made", "request_errors", "retries",
             "cache_hits", "cache_misses"}

\* initialize_session takes the statistics of the checkpoint
RestoreStep == pc = "constructed" /\ pc' = "initialized"

\* a task of the traversal goes from a state of "from" to a state of "to"
Moves(from, to) ==
    \E t \in DOMAIN tasks :
        /\ tasks[t].kind # "call"
        /\ tasks[t].pc \in from
        /\ tasks'[t].pc \in to

\* C20: in every step of a run no counter goes down, the restore of the
\* checkpoint's statistics included; outside the restore, layouts_processed
\* grows by the records _process_layout appends, requests_made by one when
\* a task enters the transport from get_layouts, cache_misses by one when a
\* task comes back from the transport, cache_hits by one when a task is
\* served by the cache in its first step, and request_errors and retries
\* stay as they are.
CountersGrowByTheirOwners ==
    [][pc' # "exited" =>
        /\ \A c \in Counters : stats'[c] >= stats[c]
        /\ ~RestoreStep =>
            /\ stats'.layouts_processed - stats.layouts_processed
                  = Len(all_pages') - Len(all_pages)
            /\ stats'.requests_made # stats.requests_made =>
                  /\ stats'.requests_made = stats.requests_made + 1
                  /\ Moves({"created"}, {"sem", "attempt"})
            /\ stats'.cache_misses # stats.cache_misses =>
                  /\ stats'.cache_misses = stats.cache_misses + 1
                  /\ Moves({"attempt"}, {"done", "gather", "raised"})
            /\ stats'.cache_hits # stats.cache_hits =>
                  /\ stats'.cache_hits = stats.cache_hits + 1
                  /\ Moves({"created"}, {"done", "gather", "raised"})
            /\ stats'.request_errors = stats.request_errors
            /\ stats'.retries = stats.retries]_vars

\* a second run has just taken the statistics of the checkpoint: the
\* records, requests and misses the first run counted
RestoredCountersOfFirstRun ==
    /\ restored
    /\ run = 2
    /\ pc = "initialized"
    /\ stats = state_file.state.stats
    /\ stats.layouts_processed = 3
    /\ stats.requests_made > 0
    /\ stats.cache_misses > 0

----------------------------------------------------------------------------
(* Properties of the page record *)

\* str.rstrip('/')
RECURSIVE rstrip(_)
rstrip(s) == IF endswith(s) THEN rstrip(DropLast(s)) ELSE s

\* C17: the path of a record is the parent path, a slash, and the friendly
\* URL without its leading and trailing slash (the friendly URL alone, so
\* stripped, under the empty parent path), and its URL ends with no slash:
\* "a/b" and "/c/" give "a/b/c".
PathJoinsStrippedSegment ==
    all_pages # <<>> =>
        LET segment == rstrip(lstrip(log.layout.friendlyURL))
        IN  /\ all_pages[1].path =
                  IF log.parent_url # <<>>
                  THEN log.parent_url \o <<Slash>> \o segment
                  ELSE segment
            /\ ~endswith(all_pages[1].url)

====
